---- MODULE Spec2Model ----
(***************************************************************************)
(* A model of the request pipeline of media-proxy-rs: the connection tasks *)
(* spawned by the accept loop, the shared Downloader with its list of      *)
(* troublesome instances behind an Arc<RwLock<..>>, the fetch with retry   *)
(* and streamed size cap, and the mapping of fetch errors to responses.    *)
(***************************************************************************)
EXTENDS Integers, Sequences, FiniteSets, TLC

(***************************************************************************)
(* Bounds of the model.                                                    *)
(***************************************************************************)
\* The configured Downloader.size_limit (Downloader::new(Some(n))), in bytes.
SizeLimit == 3
\* The largest body chunk the origin's stream yields, in bytes.
MaxChunk == 2
\* New requests are taken only while the quarantine list is shorter than this.
MaxQuarantine == 2
\* The most frames an animated body holds.
MaxFrames == 129
\* The unit tests of processors.rs take every image side and box side up to this.
MaxDim == 10
\* The accept loop of the Unix-socket listener takes connections up to this many.
MaxSpawned == 3

Tasks == {"t1", "t2"}

\* Option<T>: None is the empty sequence, Some(x) the sequence of x alone.
None == <<>>
Some(x) == <<x>>
is_some(o) == o # <<>>
is_none(o) == o = <<>>
unwrap(o) == o[1]

(***************************************************************************)
(* Strings are sequences of characters, so that to_lowercase, contains and *)
(* starts_with are computed rather than assumed.                           *)
(***************************************************************************)
UpperChars == <<"A", "B", "C", "D", "E", "F", "G", "H", "I", "J", "K", "L", "M",
                "N", "O", "P", "Q", "R", "S", "T", "U", "V", "W", "X", "Y", "Z">>
LowerChars == <<"a", "b", "c", "d", "e", "f", "g", "h", "i", "j", "k", "l", "m",
                "n", "o", "p", "q", "r", "s", "t", "u", "v", "w", "x", "y", "z">>
OtherVisible == {"0", "1", "2", "3", "4", "5", "6", "7", "8", "9",
                 "/", ".", ":", "~", "-", "_", "@", " ", ";", "=", "\"", ",",
                 "?", "*", "'"}
Range(s) == {s[i] : i \in DOMAIN s}
\* http::HeaderValue::to_str accepts visible ASCII (32..126) and tab only.
VisibleAscii == Range(UpperChars) \cup Range(LowerChars) \cup OtherVisible

to_lowercase_char(ch) ==
    IF \E i \in DOMAIN UpperChars : UpperChars[i] = ch
    THEN LowerChars[CHOOSE i \in DOMAIN UpperChars : UpperChars[i] = ch]
    ELSE ch
to_lowercase(s) == [i \in DOMAIN s |-> to_lowercase_char(s[i])]
starts_with(s, p) == Len(p) <= Len(s) /\ SubSeq(s, 1, Len(p)) = p
contains(s, p) ==
    \E i \in 1..(Len(s) + 1) :
        i + Len(p) - 1 <= Len(s) /\ SubSeq(s, i, i + Len(p) - 1) = p
\* HeaderValue::to_str: Err when a byte is not visible ASCII.
to_str_ok(s) == \A i \in DOMAIN s : s[i] \in VisibleAscii
\* str::parse::<HeaderValue>: Err on control bytes (below 32, except tab) and 127.
ControlChars == {"\n", "\r"}
header_parse_ok(s) == \A i \in DOMAIN s : s[i] \notin ControlChars

\* str::split(ch): the pieces between the occurrences of ch.
RECURSIVE split(_, _)
split(s, ch) ==
    IF \A i \in DOMAIN s : s[i] # ch THEN <<s>>
    ELSE LET i == CHOOSE k \in DOMAIN s : s[k] = ch /\ \A j \in 1..(k - 1) : s[j] # ch IN
         <<SubSeq(s, 1, i - 1)>> \o split(SubSeq(s, i + 1, Len(s)), ch)
\* str::trim_matches(chars): without the run of such characters at either end.
trim_matches(s, chars) ==
    LET keep == {i \in DOMAIN s : s[i] \notin chars} IN
    IF keep = {} THEN <<>>
    ELSE SubSeq(s, CHOOSE i \in keep : \A j \in keep : i <= j,
                   CHOOSE i \in keep : \A j \in keep : i >= j)
\* str::trim: without the white space at either end.
trim(s) == trim_matches(s, {" ", "\t"})
\* str::strip_prefix
strip_prefix(s, p) ==
    IF starts_with(s, p) THEN Some(SubSeq(s, Len(p) + 1, Len(s))) ELSE None

(***************************************************************************)
(* Inputs of a request.                                                    *)
(***************************************************************************)
\* The user-agent the Downloader sends on its first try (downloader.rs:83).
DefaultUA == <<"M", "i", "s", "s", "k", "e", "y", "M", "e", "d", "i", "a",
               "P", "r", "o", "x", "y", "/", "1", "~", "r", "s">>
BrowserUA == <<"M", "o", "z", "i", "l", "l", "a", "/", "5">>
MisskeyUA == <<"M", "i", "s", "s", "k", "e", "y", "/", "2", "0", "2", "5">>
NonAsciiUA == <<"c", "a", "f", "\\xe9">>
UserAgents == {BrowserUA, MisskeyUA, DefaultUA, NonAsciiUA}

\* The `host` query parameter (percent-decoded, so it may hold any byte).
RefHost == <<"m", "k", ".", "e", "x">>
BadRefHost == <<"m", "k", "\n", "e", "x">>
RefHosts == {RefHost, BadRefHost}

\* The `url` query parameter (percent-decoded), with what the libraries make of
\* it: whether Url::parse accepts it, its host_str, and whether the string is a
\* legal HeaderValue.  Url::parse drops the newlines of its input, HeaderValue
\* refuses them.
UrlA == "http://a.ex/i.png"
UrlB == "http://b.ex/i.png"
UrlNewline == "http://b.ex/\ni.png"
UrlNoHost == "data:x"
UrlInvalid == "not a url"
UrlQuery == "http://a.ex/i.png?v=1"
\* tail is url.split('/').next_back(), the filename download_file starts from.
IPng == <<"i", ".", "p", "n", "g">>
UrlTable ==
    [u \in {UrlA, UrlB, UrlNewline, UrlNoHost, UrlInvalid, UrlQuery} |->
        CASE u = UrlA -> [parsed |-> TRUE, host |-> Some("a.ex"), header_ok |-> TRUE,
                          tail |-> IPng]
          [] u = UrlB -> [parsed |-> TRUE, host |-> Some("b.ex"), header_ok |-> TRUE,
                          tail |-> IPng]
          [] u = UrlNewline -> [parsed |-> TRUE, host |-> Some("b.ex"),
                                header_ok |-> FALSE, tail |-> <<"\n">> \o IPng]
          [] u = UrlQuery -> [parsed |-> TRUE, host |-> Some("a.ex"), header_ok |-> TRUE,
                              tail |-> IPng \o <<"?", "v", "=", "1">>]
          [] u = UrlNoHost -> [parsed |-> TRUE, host |-> None, header_ok |-> TRUE,
                               tail |-> <<"d", "a", "t", "a", ":", "x">>]
          [] OTHER -> [parsed |-> FALSE, host |-> None, header_ok |-> TRUE,
                       tail |-> <<"n", "o", "t", " ", "a", " ", "u", "r", "l">>]]
Urls == DOMAIN UrlTable
TargetHosts == {"a.ex", "b.ex"}

\* The boolean options of the query string.
OptionKeys == {"emoji", "avatar", "static", "preview", "badge"}

Option(S) == {None} \cup {Some(x) : x \in S}

\* enum image::ImageFormat, as far as requests name it: extensions_str()[0] and
\* to_mime_type() of each.
ImageFormats == {"WebP", "Gif", "Png", "Jpeg"}
extensions_str0(format) ==
    CASE format = "WebP" -> <<"w", "e", "b", "p">>
      [] format = "Gif" -> <<"g", "i", "f">>
      [] format = "Png" -> <<"p", "n", "g">>
      [] format = "Jpeg" -> <<"j", "p", "g">>
to_mime_type(format) == <<"i", "m", "a", "g", "e", "/">> \o
    (IF format = "Jpeg" THEN <<"j", "p", "e", "g">> ELSE extensions_str0(format))

\* The request path, with what std::path::Path::extension and
\* ImageFormat::from_extension make of it.
PathTable ==
    [p \in {"/", "/i.png", "/i.gif", "/i.bin", "/image"} |->
        CASE p = "/" -> [len |-> 1, format |-> None]
          [] p = "/i.png" -> [len |-> 6, format |-> Some("Png")]
          [] p = "/i.gif" -> [len |-> 6, format |-> Some("Gif")]
          [] OTHER -> [len |-> 6, format |-> None]]
Paths == DOMAIN PathTable
\* A request as hyper hands it to handle().
Requests ==
    [path : Paths, has_query : BOOLEAN, url : Option(Urls), host : Option(RefHosts),
     ua : Option(UserAgents), options : SUBSET OptionKeys]

(***************************************************************************)
(* What an origin answers.                                                 *)
(***************************************************************************)
ImagePng == <<"i", "m", "a", "g", "e", "/", "p", "n", "g">>
TextHtml == <<"t", "e", "x", "t", "/", "h", "t", "m", "l">>
NonAsciiCT == <<"i", "m", "\\xe9">>
ContentTypes == {ImagePng, TextHtml, NonAsciiCT}

\* How the response declares its length:
\*   known    Response::content_length() is Some(n): the framing fixes the body
\*   header   content_length() is None, a Content-Length header parses to n
\*   garbage  content_length() is None, the header is ASCII but no u64
\*   nonascii content_length() is None, the header is not ASCII
\*   none     neither is there
LenNone == [kind |-> "none", n |-> 0]
DeclaredLens == {1, SizeLimit, SizeLimit + 1}
Lengths ==
    {LenNone, [kind |-> "garbage", n |-> 0], [kind |-> "nonascii", n |-> 0]}
    \cup [kind : {"known", "header"}, n : DeclaredLens]

StatusCodes == {200, 204, 304, 404, 500}
is_success(s) == s >= 200 /\ s < 300
is_client_error(s) == s >= 400 /\ s < 500
NO_CONTENT == 204
FOUND == 302
BAD_REQUEST == 400
FORBIDDEN == 403
INTERNAL_SERVER_ERROR == 500
NOT_IMPLEMENTED == 501

\* Content-Disposition values: a quoted filename, no parameter, two filename
\* parameters, an extended parameter only, an empty name, a byte that is not
\* ASCII.
QuotedName == <<"a", "t", "t", "a", "c", "h", "m", "e", "n", "t", ";", " ", "f", "i", "l", "e", "n", "a", "m", "e", "=", "\"", "a", ".", "p", "n", "g", "\"">>
NoName == <<"i", "n", "l", "i", "n", "e">>
TwoNames == <<"a", "t", "t", "a", "c", "h", "m", "e", "n", "t", ";", "f", "i", "l", "e", "n", "a", "m", "e", "=", "b", ".", "g", "i", "f", " ", ";", " ", "f", "i", "l", "e", "n", "a", "m", "e", "=", "c">>
ExtendedName == <<"a", "t", "t", "a", "c", "h", "m", "e", "n", "t", ";", " ", "f", "i", "l", "e", "n", "a", "m", "e", "*", "=", "U", "T", "F", "-", "8", "'", "'", "d", ".", "p", "n", "g">>
EmptyName == <<"i", "n", "l", "i", "n", "e", ";", " ", "f", "i", "l", "e", "n", "a", "m", "e", "=", "\"", "\"">>
NonAsciiName == <<"f", "i", "l", "e", "n", "a", "m", "e", "=", "\\xe9">>
ContentDispositions ==
    {QuotedName, NoName, TwoNames, ExtendedName, EmptyName, NonAsciiName}

\* The headers of a response matter to the code only when its status passes the
\* status check; the others are drawn with no headers.  These responses carry
\* no Content-Disposition.
Responses ==
    {r \in [status : StatusCodes, length : Lengths,
             content_type : Option(ContentTypes), content_disposition : {None}] :
        (is_success(r.status) /\ r.status # NO_CONTENT)
        \/ (r.length = LenNone /\ r.content_type = None)}
\* Responses of a PNG with any Content-Disposition, and the bare 404.
DispositionResponses ==
    [status : {200}, length : {LenNone}, content_type : {Some(ImagePng)},
     content_disposition : Option(ContentDispositions)]
    \cup [status : {404}, length : {LenNone}, content_type : {None},
          content_disposition : {None}]

(***************************************************************************)
(* What the image library makes of a body.                                 *)
(***************************************************************************)
\* image::Delay::from_numer_denom_ms; numer_denom_ms() gives the pair back.
Delay_from_numer_denom_ms(numer, denom) == [numer |-> numer, denom |-> denom]

\* A raster of the given size with its delay: the (DynamicImage, Delay) pair.
Image(width, height, delay) == [width |-> width, height |-> height, delay |-> delay]

\* A body: the format ImageReader::with_guessed_format finds (None when it
\* recognises none), whether the codec rejects the data, whether the container
\* signals animation (always so for GIF), the orientation the metadata stores
\* and the frames in display order.
Body(format, codec_error, animated, orientation, frames) ==
    [format |-> format, codec_error |-> codec_error, animated |-> animated,
     orientation |-> orientation, frames |-> frames]

NoTransforms == "NoTransforms"
Rotate90 == "Rotate90"
NotAnImage == Body(None, FALSE, FALSE, NoTransforms, <<>>)
CorruptPng == Body(Some("Png"), TRUE, FALSE, NoTransforms, <<>>)
\* The delay a static source's container stores is never read.
StaticPng(width, height) ==
    Body(Some("Png"), FALSE, FALSE, NoTransforms,
         <<Image(width, height, Delay_from_numer_denom_ms(0, 1))>>)
RotatedPng(width, height) ==
    Body(Some("Png"), FALSE, FALSE, Rotate90,
         <<Image(width, height, Delay_from_numer_denom_ms(0, 1))>>)
AnimatedGif(frames) == Body(Some("Gif"), FALSE, TRUE, NoTransforms, frames)
AnimatedPng(frames) == Body(Some("Png"), FALSE, TRUE, NoTransforms, frames)

\* A long delay of an APNG frame: delay_num = 16777, delay_den = 1, which the
\* decoder turns into 16777 * 1000 over 1; the longest whole number of seconds
\* below the 2^24 ms that a WebP frame's duration can hold.
LongApngDelay == Delay_from_numer_denom_ms(16777000, 1)

(***************************************************************************)
(* State.                                                                  *)
(***************************************************************************)
VARIABLES
    downloader,     \* the Downloader main() builds and the accept loop clones
    arcs,           \* the heap of Arc<RwLock<Vec<String>>> cells
    conn,           \* per connection task: its Downloader clone and its request
    clients,        \* environment: the requests callers send
    origin,         \* environment: the responses, body chunks, bodies and names origins send
    debug_enabled,  \* environment: whether tracing's DEBUG level is enabled
    build,          \* environment: the cargo features and profile of the build
    tests,          \* the image a unit test of processors.rs holds, and its call
    unix            \* the Unix-socket listener: its position, and the files at its path
vars == <<downloader, arcs, conn, clients, origin, debug_enabled, build, tests, unix>>

ArcIds == 0..1
NoTask == "-"

SumSeq(s) == IF s = <<>> THEN 0 ELSE LET F[i \in 0..Len(s)] == IF i = 0 THEN 0 ELSE F[i - 1] + s[i] IN F[Len(s)]

\* enum FileDownloadError
Oversize == [kind |-> "Oversize", code |-> 0]
InvalidUrl == [kind |-> "InvalidUrl", code |-> 0]
InvalidStatusCode(status) == [kind |-> "InvalidStatusCode", code |-> status]
RequestError == [kind |-> "RequestError", code |-> 0]

\* struct DownloadedFile; bytes is the sequence of the chunks received.
DownloadedFile(bytes, ct, filename) ==
    [bytes |-> bytes, content_type |-> ct, filename |-> filename]

\* The outcomes of a request, as main.rs renders them.
Healthcheck ==
    [tag |-> "Healthcheck", code |-> 200, url |-> "", bytes |-> <<"O", "K">>,
     content_type |-> None, filename |-> None, filename_encoded |-> None]
StatusCodeOnly(code) ==
    [tag |-> "StatusOnly", code |-> code, url |-> "", bytes |-> <<>>,
     content_type |-> None, filename |-> None, filename_encoded |-> None]
Redirectable(url) ==
    [tag |-> "Redirect", code |-> FOUND, url |-> url, bytes |-> <<>>,
     content_type |-> None, filename |-> None, filename_encoded |-> None]
BytesOnly(file) ==
    [tag |-> "RawPassthrough", code |-> 200, url |-> "", bytes |-> file.bytes,
     content_type |-> file.content_type, filename |-> None,
     filename_encoded |-> None]
\* struct ProxyImageResult; the encoded bytes are left abstract.
\* filename is the pair (String, Option<String>): the name and its encoded form.
Transformed(mime, filename) ==
    [tag |-> "Transformed", code |-> 200, url |-> "", bytes |-> <<>>,
     content_type |-> Some(mime), filename |-> Some(filename[1]),
     filename_encoded |-> filename[2]]

\* Downloader::new
Downloader_new(size_limit, arc) ==
    [size_limit |-> size_limit, troublesome_instances |-> arc]

\* A clone that builds a list of its own instead of sharing the Arc.
Downloader_clone_own_list(self) ==
    [size_limit |-> self.size_limit,
     troublesome_instances |-> self.troublesome_instances + 1]

\* impl Clone for Downloader: Arc::clone copies the pointer, not the list.
Downloader_clone(self) ==
    [size_limit |-> self.size_limit,
     troublesome_instances |-> self.troublesome_instances]

NoRequest ==
    [path |-> "/", has_query |-> FALSE, url |-> None, host |-> None, ua |-> None,
     options |-> {}]

\* The locals of a connection task before it has a request.
IdleConn ==
    [pc |-> "idle", downloader |-> None, req |-> NoRequest, target_host |-> "",
     worth_first_try |-> TRUE, sent |-> <<>>, first_status |-> 0, resp |-> None,
     limited_buf |-> <<>>, file |-> None, filename_encoded |-> None,
     error |-> None, body |-> None,
     decoded |-> None, target_format |-> None, calls |-> <<>>, images |-> None, encoder |-> None,
     outcome |-> None, response |-> None]

(***************************************************************************)
(* The end of a request.                                                   *)
(***************************************************************************)
\* A response: Response::new(body) has status 200 and no headers.
Response_new(body) ==
    [status |-> 200, location |-> None, content_type |-> None,
     cache_control |-> None, content_disposition |-> None, body |-> body]

\* response_raw: the bytes, with a Content-Type when there is one; None where
\* ct.parse().unwrap() panics.
response_raw(bytes, ct) ==
    IF is_some(ct) /\ ~header_parse_ok(unwrap(ct)) THEN None
    ELSE Some([Response_new(bytes) EXCEPT !.content_type = ct])

MaxAgeImmutable ==
    <<"m", "a", "x", "-", "a", "g", "e", "=", "3", "1", "5", "3", "6", "0", "0", "0",
      ",", " ", "i", "m", "m", "u", "t", "a", "b", "l", "e">>

\* format!("{content_disposition}; filename*={filename_encoded}")
FilenameStar == <<";", " ", "f", "i", "l", "e", "n", "a", "m", "e", "*", "=">>

\* format!("inline; filename=\"{}\"", filename)
inline_content_disposition(filename) ==
    <<"i", "n", "l", "i", "n", "e", ";", " ",
      "f", "i", "l", "e", "n", "a", "m", "e", "=", "\"">> \o filename \o <<"\"">>

\* handle's rendering of an outcome as a response; None where an unwrap() in it
\* panics (the Location value is parsed from the url, the Content-Type value
\* from the declared type, the Content-Disposition value from the filename).
render(outcome) ==
    CASE outcome.tag = "Healthcheck" -> Some(Response_new(outcome.bytes))
      [] outcome.tag = "Transformed" ->
            LET raw == response_raw(outcome.bytes, outcome.content_type)
                inline == inline_content_disposition(unwrap(outcome.filename))
                content_disposition ==
                    IF is_some(outcome.filename_encoded)
                    THEN inline \o FilenameStar \o unwrap(outcome.filename_encoded)
                    ELSE inline IN
            IF is_none(raw) \/ ~header_parse_ok(content_disposition) THEN None
            ELSE Some([unwrap(raw) EXCEPT !.cache_control = Some(MaxAgeImmutable),
                           !.content_disposition = Some(content_disposition)])
      [] outcome.tag = "StatusOnly" ->
            Some([Response_new(<<>>) EXCEPT !.status = outcome.code])
      [] outcome.tag = "Redirect" ->
            IF UrlTable[outcome.url].header_ok
            THEN Some([Response_new(<<>>) EXCEPT !.status = FOUND,
                                                 !.location = Some(outcome.url)])
            ELSE None
      [] outcome.tag = "RawPassthrough" ->
            response_raw(outcome.bytes, outcome.content_type)

\* The service future resolves: with the rendered response, or the task unwinds.
Finish(c, outcome) ==
    LET response == render(outcome) IN
    [c EXCEPT !.pc = IF is_some(response) THEN "done" ELSE "panicked",
              !.outcome = Some(outcome), !.response = response]

\* An unwrap() on None or Err: the connection task unwinds, no response is sent.
Panic(c) == [c EXCEPT !.pc = "panicked"]

\* The arm of download_image for FileDownloadError::InvalidUrl.
InvalidUrlOutcome == StatusCodeOnly(BAD_REQUEST)

\* A mapping that answers 500 for every bad origin status.
DownloadErrorOutcome_flat(e, url) ==
    CASE e.kind = "Oversize" -> Redirectable(url)
      [] e.kind = "InvalidStatusCode" -> StatusCodeOnly(INTERNAL_SERVER_ERROR)
      [] e.kind = "RequestError" -> StatusCodeOnly(INTERNAL_SERVER_ERROR)
      [] e.kind = "InvalidUrl" -> InvalidUrlOutcome

\* download_image's match on the error of download_file.
DownloadErrorOutcome(e, url) ==
    CASE e.kind = "Oversize" -> Redirectable(url)
      [] e.kind = "InvalidStatusCode" -> StatusCodeOnly(e.code)
      [] e.kind = "RequestError" -> StatusCodeOnly(INTERNAL_SERVER_ERROR)
      [] e.kind = "InvalidUrl" -> InvalidUrlOutcome

\* download_file returns Err(e); download_image turns it into the outcome.
Fail(c, e) ==
    Finish([c EXCEPT !.error = Some(e)], DownloadErrorOutcome(e, unwrap(c.req.url)))

(***************************************************************************)
(* Downloader::download_file, cut at its await points.                     *)
(***************************************************************************)
\* A status check that forgets 204 No Content.
status_ok_any_2xx(resp_status) == is_success(resp_status)

\* The status check of the final response.
status_ok(resp_status) == is_success(resp_status) /\ resp_status # NO_CONTENT

\* The pre-check of the declared length.
declared_oversize(size, size_limit) == size > size_limit

\* A body read without the check, as Response::bytes() would do.
buffer_oversize_unchecked(len, size_limit) == FALSE

\* A check that lets one byte over the cap through.
buffer_oversize_off_by_one(len, size_limit) == len > size_limit + 1

\* The check after each chunk of the body.
buffer_oversize(len, size_limit) == len > size_limit

\* "Set filename": the piece of the url after its last '/', replaced by the
\* value of the first part of Content-Disposition that, trimmed, starts with
\* filename=, its double quotes at either end removed.
FilenameEq == <<"f", "i", "l", "e", "n", "a", "m", "e", "=">>
filename_of(url, content_disposition) ==
    LET tail == UrlTable[url].tail IN
    IF is_none(content_disposition) THEN tail
    ELSE LET parts == split(unwrap(content_disposition), ";")
             named == {i \in DOMAIN parts :
                          is_some(strip_prefix(trim(parts[i]), FilenameEq))} IN
         IF named = {} THEN tail
         ELSE LET first == CHOOSE i \in named : \A j \in named : i <= j IN
              trim_matches(unwrap(strip_prefix(trim(parts[first]), FilenameEq)), {"\""})

\* From `let resp = resp.unwrap()` to the creation of the body stream.
check_response(c) ==
    IF is_none(c.resp) THEN Panic(c)
    ELSE LET resp == unwrap(c.resp)
             size_limit == unwrap(c.downloader).size_limit IN
        IF ~status_ok(resp.status) THEN Fail(c, InvalidStatusCode(resp.status))
        ELSE IF resp.length.kind = "known"
                /\ declared_oversize(resp.length.n, size_limit) THEN Fail(c, Oversize)
        ELSE IF resp.length.kind = "nonascii" THEN Panic(c)
        ELSE IF resp.length.kind = "header"
                /\ declared_oversize(resp.length.n, size_limit) THEN Fail(c, Oversize)
        ELSE IF is_some(resp.content_disposition)
                /\ ~to_str_ok(unwrap(resp.content_disposition)) THEN Panic(c)
        ELSE IF is_some(resp.content_type) /\ ~to_str_ok(unwrap(resp.content_type))
             THEN Panic(c)
        ELSE [c EXCEPT !.pc = "streaming", !.limited_buf = <<>>]

\* A retry condition that takes every unsuccessful first response.
needs_retry_any_failure(worth_first_try, resp) ==
    ~worth_first_try \/ (is_some(resp) /\ ~is_success(unwrap(resp).status))

\* Whether the second request is to be made.
needs_retry(worth_first_try, resp) ==
    ~worth_first_try \/ (is_some(resp) /\ is_client_error(unwrap(resp).status))

\* From the retry condition to the send of the second request.
after_first_try(c, debug) ==
    IF needs_retry(c.worth_first_try, c.resp) THEN
        IF is_some(c.req.host) THEN
            IF debug /\ is_none(c.resp) THEN Panic(c)
            ELSE IF ~header_parse_ok(unwrap(c.req.ua)) THEN Panic(c)
            ELSE IF ~header_parse_ok(unwrap(c.req.host)) THEN Panic(c)
            ELSE [c EXCEPT !.pc = "retry_sent",
                           !.sent = Append(@, [variant |-> "retry",
                                               ua |-> unwrap(c.req.ua),
                                               referer |-> c.req.host])]
        ELSE check_response(c)
    ELSE check_response(c)

\* From the entry of download_file to the await of the read lock.
download_file(c) ==
    LET parsed_url == UrlTable[unwrap(c.req.url)] IN
    IF ~parsed_url.parsed \/ is_none(parsed_url.host) THEN Fail(c, InvalidUrl)
    ELSE [c EXCEPT !.pc = "read_wait", !.target_host = unwrap(parsed_url.host)]

(***************************************************************************)
(* download_image and handle, up to the first await.                       *)
(***************************************************************************)
Misskey == <<"m", "i", "s", "s", "k", "e", "y", "/">>

\* A download_image without the check for recursive proxying.
download_image_unguarded(c) ==
    IF is_none(c.req.url) THEN Finish(c, StatusCodeOnly(BAD_REQUEST))
    ELSE IF is_none(c.req.ua) THEN Finish(c, StatusCodeOnly(BAD_REQUEST))
    ELSE download_file(c)

download_image(c) ==
    IF is_none(c.req.url) THEN Finish(c, StatusCodeOnly(BAD_REQUEST))
    ELSE IF is_none(c.req.ua) THEN Finish(c, StatusCodeOnly(BAD_REQUEST))
    ELSE IF contains(to_lowercase(unwrap(c.req.ua)), Misskey)
         THEN Finish(c, StatusCodeOnly(FORBIDDEN))
    ELSE download_file(c)

\* A handle that sends every request down the pipeline.
handle_without_healthcheck(c, req) ==
    LET c0 == [IdleConn EXCEPT !.downloader = c.downloader, !.req = req] IN
    IF is_some(req.ua) /\ ~to_str_ok(unwrap(req.ua)) THEN Panic(c0)
    ELSE download_image(c0)

handle(c, req) ==
    LET c0 == [IdleConn EXCEPT !.downloader = c.downloader, !.req = req] IN
    IF ~req.has_query THEN Finish(c0, Healthcheck)
    ELSE IF is_some(req.ua) /\ ~to_str_ok(unwrap(req.ua)) THEN Panic(c0)
    ELSE download_image(c0)

\* A gate that hands every downloaded file to the decoder.
mime_gate_open(c) == [c EXCEPT !.pc = "decode"]

\* After download_file returned Ok: the mime gate of download_image.
mime_gate(c) ==
    LET file == unwrap(c.file) IN
    IF is_some(file.content_type) /\ ~starts_with(unwrap(file.content_type), <<"i", "m", "a", "g", "e", "/">>)
    THEN Finish(c, BytesOnly(file))
    ELSE [c EXCEPT !.pc = "decode"]

(***************************************************************************)
(* decode.rs                                                               *)
(***************************************************************************)
\* DynamicImage::apply_orientation: a quarter turn swaps width and height.
apply_orientation(img, ori) ==
    IF ori = Rotate90
    THEN [img EXCEPT !.width = img.height, !.height = img.width]
    ELSE img

static_image(ori, img) ==
    <<apply_orientation(Image(img.width, img.height, Delay_from_numer_denom_ms(0, 1)),
                        ori)>>

frames_to_images(ori, frames) ==
    [i \in DOMAIN frames |-> apply_orientation(frames[i], ori)]

\* Ok(images) or Err(ImageError)
decode_image_format(body) ==
    IF body.codec_error THEN [ok |-> FALSE, err |-> "ImageError", images |-> <<>>]
    ELSE [ok |-> TRUE, err |-> "",
          images |-> IF body.animated
                     THEN frames_to_images(body.orientation, body.frames)
                     ELSE static_image(body.orientation, body.frames[1])]

\* A decode_image that returns several frames in every build.
decode_image_any_build(body, anim) ==
    IF is_none(body.format) THEN [ok |-> FALSE, err |-> "Unsupported", images |-> <<>>]
    ELSE decode_image_format(body)

\* decode_image; anim is cfg(feature = "anim").
decode_image(body, anim) ==
    IF is_none(body.format) THEN [ok |-> FALSE, err |-> "Unsupported", images |-> <<>>]
    ELSE LET decoded == decode_image_format(body) IN
         IF anim THEN decoded
         ELSE IF decoded.ok /\ Len(decoded.images) > 1
              THEN [ok |-> FALSE, err |-> "Unsupported", images |-> <<>>]
              ELSE decoded

(***************************************************************************)
(* processors.rs                                                           *)
(***************************************************************************)
Max(a, b) == IF a >= b THEN a ELSE b

\* (numer as f64 / denom as f64).round() for positive integers: f64 division is
\* correctly rounded and round() takes a half away from zero.
round_div(numer, denom) == (2 * numer + denom) \div (2 * denom)

\* (x as f64 * ratio).round() where ratio is itself a rounded f64 quotient and
\* the exact product is numer / denom: when the exact product is a half, the
\* f64 product may fall just below it (half_down) and round() then goes down.
round_product(numer, denom, half_down) ==
    IF half_down /\ 2 * (numer % denom) = denom
    THEN numer \div denom
    ELSE round_div(numer, denom)

\* DynamicImage::thumbnail_exact: an image of exactly that size.
thumbnail_exact(image, nwidth, nheight) ==
    [image EXCEPT !.width = nwidth, !.height = nheight]

\* image::math::resize_dimensions with fill = false: ratio is the smaller of
\* nwidth / width and nheight / height, each side is max(round(side * ratio), 1).
resize_dimensions(width, height, nwidth, nheight, half_down) ==
    IF nwidth * height <= nheight * width
    THEN <<Max(round_product(width * nwidth, width, half_down), 1),
           Max(round_product(height * nwidth, width, half_down), 1)>>
    ELSE <<Max(round_product(width * nheight, height, half_down), 1),
           Max(round_product(height * nheight, height, half_down), 1)>>

\* DynamicImage::thumbnail
thumbnail(image, nwidth, nheight, half_down) ==
    LET d == resize_dimensions(image.width, image.height, nwidth, nheight, half_down)
    IN thumbnail_exact(image, d[1], d[2])

\* A cover-fill that casts to u32 without rounding first.
shrink_outside_truncating(image, size) ==
    LET w == image.width
        h == image.height IN
    IF w > size /\ h > size
    THEN IF w > h
         THEN thumbnail_exact(image, (size * w) \div h, size)
         ELSE thumbnail_exact(image, size, (size * h) \div w)
    ELSE image

shrink_outside(image, size) ==
    LET w == image.width
        h == image.height IN
    IF w > size /\ h > size
    THEN IF w > h
         THEN thumbnail_exact(image, round_div(size * w, h), size)
         ELSE thumbnail_exact(image, size, round_div(size * h, w))
    ELSE image

\* A fit-within-box that resizes every image to the box, smaller ones too.
shrink_inside_always(image, width, height, half_down) ==
    thumbnail(image, width, height, half_down)

\* A fit-within-box that resizes only when both sides exceed the box.
shrink_inside_both(image, width, height, half_down) ==
    IF image.width > width /\ image.height > height
    THEN thumbnail(image, width, height, half_down)
    ELSE image

shrink_inside(image, width, height, half_down) ==
    IF image.width > width \/ image.height > height
    THEN thumbnail(image, width, height, half_down)
    ELSE image

\* A map that hands the images back last first.
shrink_outside_vec_reversed(images, size) ==
    [i \in DOMAIN images |-> shrink_outside(images[Len(images) + 1 - i], size)]

shrink_outside_vec(images, size) ==
    [i \in DOMAIN images |-> shrink_outside(images[i], size)]

shrink_inside_vec(images, width, height, half_down) ==
    [i \in DOMAIN images |-> shrink_inside(images[i], width, height, half_down)]

(***************************************************************************)
(* encode.rs                                                               *)
(***************************************************************************)
MaxI32 == 2147483647
MinI32 == (-MaxI32) - 1

\* `x as i32` of a u32.
as_i32(x) == IF x <= MaxI32 THEN x ELSE (x + MinI32) + MinI32

\* Whether a + b leaves the i32 range, for b >= 0.
add_overflows(a, b) == a > MaxI32 - b

\* i32::wrapping_add for b >= 0: what += does when overflow checks are off.
wrapping_add(a, b) == IF add_overflows(a, b) THEN ((a + MinI32) + b) + MinI32 ELSE a + b

images_to_frames(images) ==
    [i \in DOMAIN images |->
        [buffer |-> [width |-> images[i].width, height |-> images[i].height],
         left |-> 0, top |-> 0, delay |-> images[i].delay]]

\* One turn of the loop of encode_webp, on frame i: add_frame at current_ts,
\* then `current_ts += frame_delay`, which panics on overflow when overflow
\* checks are compiled in and wraps otherwise.  Nothing runs after a panic.
encode_webp_frame(prev, frame, i, overflow_checks) ==
    IF prev.panicked THEN prev
    ELSE LET written == Append(prev.add_frame,
                               [frame |-> i, timestamp_ms |-> prev.current_ts])
             frame_delay_tuple == frame.delay
             frame_delay ==
                 as_i32(frame_delay_tuple.numer \div frame_delay_tuple.denom) IN
         IF overflow_checks /\ add_overflows(prev.current_ts, frame_delay)
         THEN [panicked |-> TRUE, current_ts |-> prev.current_ts,
               add_frame |-> written]
         ELSE [panicked |-> FALSE,
               current_ts |-> wrapping_add(prev.current_ts, frame_delay),
               add_frame |-> written]

\* The turns of the loop on frames lo..hi, in order, starting from prev (the
\* range is halved so that the evaluation stays shallow).
RECURSIVE encode_webp_frames(_, _, _, _, _)
encode_webp_frames(prev, frames, lo, hi, overflow_checks) ==
    IF lo > hi THEN prev
    ELSE IF lo = hi THEN encode_webp_frame(prev, frames[lo], lo, overflow_checks)
    ELSE LET mid == (lo + hi) \div 2
             first == encode_webp_frames(prev, frames, lo, mid, overflow_checks) IN
         IF first.panicked THEN first
         ELSE encode_webp_frames(first, frames, mid + 1, hi, overflow_checks)

\* The loop of encode_webp over the frames: the add_frame calls made, the
\* timestamp after the last frame, and whether the loop panicked.
encode_webp_loop(frames, overflow_checks) ==
    encode_webp_frames([panicked |-> FALSE, current_ts |-> 0, add_frame |-> <<>>],
                       frames, 1, Len(frames), overflow_checks)

\* encode_webp: images[0] panics on an empty vector; finalize gets current_ts.
\* frames is the Vec<Frame> the loop consumes.
encode_webp(images, overflow_checks) ==
    IF images = <<>>
    THEN [kind |-> "encode_webp", panicked |-> TRUE, frames |-> <<>>,
          add_frame |-> <<>>, finalize |-> None]
    ELSE LET end == encode_webp_loop(images_to_frames(images), overflow_checks) IN
         [kind |-> "encode_webp", panicked |-> end.panicked,
          frames |-> images_to_frames(images), add_frame |-> end.add_frame,
          finalize |-> IF end.panicked THEN None ELSE Some(end.current_ts)]

ends_with(s, suffix) ==
    Len(suffix) <= Len(s) /\ SubSeq(s, Len(s) - Len(suffix) + 1, Len(s)) = suffix

\* A filename returned as it came.
correct_filename_skipped(filename, target_format) == filename

\* "Correct filename with target extension"
correct_filename(filename, target_format) ==
    LET target_extension == <<".">> \o extensions_str0(target_format) IN
    IF ~ends_with(filename, target_extension) THEN filename \o target_extension
    ELSE filename

\* The encoder the target format selects and the calls made on it.  GifEncoder
\* is handed every frame, each with its own delay; the static formats take
\* images[0], which panics on an empty vector.  frames is the Vec<Frame> built
\* by images_to_frames, add_frame the images written, by their index.
encoder_calls(images, target_format, anim, overflow_checks) ==
    IF target_format = "WebP" /\ anim THEN encode_webp(images, overflow_checks)
    ELSE IF target_format = "Gif"
    THEN [kind |-> "encode_frames", panicked |-> FALSE,
          frames |-> images_to_frames(images),
          add_frame |-> [i \in DOMAIN images |-> [frame |-> i, timestamp_ms |-> 0]],
          finalize |-> None]
    ELSE [kind |-> "write_to", panicked |-> images = <<>>,
          frames |-> <<>>,
          add_frame |-> IF images = <<>> THEN <<>>
                        ELSE <<[frame |-> 1, timestamp_ms |-> 0]>>,
          finalize |-> None]

\* encode_image: Ok(ProxyImageResult) or Err(()); original_filename is the
\* pair of the name and its encoded form, codec_ok is whether the
\* encoder library accepted every call.  encoder holds the calls made as long
\* as the library accepts them.
encode_image(images, target_format, original_filename, b, codec_ok) ==
    LET enc == encoder_calls(images, target_format, b.anim, b.overflow_checks) IN
    [encoder |-> [kind |-> enc.kind, frames |-> enc.frames, add_frame |-> enc.add_frame,
                  finalize |-> enc.finalize, accepted |-> codec_ok],
     panicked |-> enc.panicked /\ (images = <<>> \/ codec_ok),
     ok |-> codec_ok,
     result |-> Transformed(to_mime_type(target_format),
                            <<correct_filename(original_filename[1], target_format),
                              IF is_some(original_filename[2])
                              THEN Some(correct_filename(unwrap(original_filename[2]),
                                                         target_format))
                              ELSE None>>)]

(***************************************************************************)
(* proxy_image after the download: decode, manipulate, encode.             *)
(***************************************************************************)
\* A selection that falls back to PNG.
target_format_of_png_default(path) ==
    IF PathTable[path].len > 1
    THEN IF is_some(PathTable[path].format) THEN unwrap(PathTable[path].format)
         ELSE "Png"
    ELSE "Png"

\* "Check target format"
target_format_of(path) ==
    IF PathTable[path].len > 1
    THEN IF is_some(PathTable[path].format) THEN unwrap(PathTable[path].format)
         ELSE "WebP"
    ELSE "WebP"

\* A decode failure answered as a server error.
DecodeErrorOutcome_hard(file) == StatusCodeOnly(INTERNAL_SERVER_ERROR)

\* What a decode failure of either kind is answered with.
DecodeErrorOutcome(file) == BytesOnly(file)

Call(fn, args) == [fn |-> fn, args |-> args]
truncate(images, len) == SubSeq(images, 1, IF Len(images) < len THEN Len(images) ELSE len)

\* A chain without the badge arm: a badge request is encoded unchanged.
manipulate_image_badge_falls_through(images, query, half_down) ==
    IF "emoji" \in query \/ "avatar" \in query
    THEN LET target_size == IF "emoji" \in query THEN 128 ELSE 320
             shrunk == shrink_outside_vec(images, target_size) IN
         IF "static" \in query
         THEN [returned |-> None, images |-> truncate(shrunk, 1),
               calls |-> <<Call("shrink_outside_vec", <<target_size>>),
                           Call("truncate", <<1>>)>>]
         ELSE [returned |-> None, images |-> shrunk,
               calls |-> <<Call("shrink_outside_vec", <<target_size>>)>>]
    ELSE IF "static" \in query
    THEN [returned |-> None, images |-> shrink_inside_vec(images, 498, 422, half_down),
          calls |-> <<Call("shrink_inside_vec", <<498, 422>>)>>]
    ELSE IF "preview" \in query
    THEN [returned |-> None, images |-> shrink_inside_vec(images, 200, 200, half_down),
          calls |-> <<Call("shrink_inside_vec", <<200, 200>>)>>]
    ELSE [returned |-> None, images |-> images, calls |-> <<>>]

\* A chain that prefers avatar to emoji.
manipulate_image_avatar_first(images, query, half_down) ==
    IF "emoji" \in query \/ "avatar" \in query
    THEN LET target_size == IF "avatar" \in query THEN 320 ELSE 128
             shrunk == shrink_outside_vec(images, target_size) IN
         IF "static" \in query
         THEN [returned |-> None, images |-> truncate(shrunk, 1),
               calls |-> <<Call("shrink_outside_vec", <<target_size>>),
                           Call("truncate", <<1>>)>>]
         ELSE [returned |-> None, images |-> shrunk,
               calls |-> <<Call("shrink_outside_vec", <<target_size>>)>>]
    ELSE IF "static" \in query
    THEN [returned |-> None, images |-> shrink_inside_vec(images, 498, 422, half_down),
          calls |-> <<Call("shrink_inside_vec", <<498, 422>>)>>]
    ELSE IF "preview" \in query
    THEN [returned |-> None, images |-> shrink_inside_vec(images, 200, 200, half_down),
          calls |-> <<Call("shrink_inside_vec", <<200, 200>>)>>]
    ELSE IF "badge" \in query
    THEN [returned |-> Some(StatusCodeOnly(NOT_IMPLEMENTED)), images |-> images,
          calls |-> <<>>]
    ELSE [returned |-> None, images |-> images, calls |-> <<>>]

\* "Manipulate image": the if / else-if chain over the query keys.  returned is
\* the response of an early return, calls the functions applied to the images.
manipulate_image(images, query, half_down) ==
    IF "emoji" \in query \/ "avatar" \in query
    THEN LET target_size == IF "emoji" \in query THEN 128 ELSE 320
             shrunk == shrink_outside_vec(images, target_size) IN
         IF "static" \in query
         THEN [returned |-> None, images |-> truncate(shrunk, 1),
               calls |-> <<Call("shrink_outside_vec", <<target_size>>),
                           Call("truncate", <<1>>)>>]
         ELSE [returned |-> None, images |-> shrunk,
               calls |-> <<Call("shrink_outside_vec", <<target_size>>)>>]
    ELSE IF "static" \in query
    THEN [returned |-> None, images |-> shrink_inside_vec(images, 498, 422, half_down),
          calls |-> <<Call("shrink_inside_vec", <<498, 422>>)>>]
    ELSE IF "preview" \in query
    THEN [returned |-> None, images |-> shrink_inside_vec(images, 200, 200, half_down),
          calls |-> <<Call("shrink_inside_vec", <<200, 200>>)>>]
    ELSE IF "badge" \in query
    THEN [returned |-> Some(StatusCodeOnly(NOT_IMPLEMENTED)), images |-> images,
          calls |-> <<>>]
    ELSE [returned |-> None, images |-> images, calls |-> <<>>]

\* proxy_image from the decoding on.  body is what the downloaded bytes hold,
\* filename_encoded the encoded form of the file's name handed on with it,
\* half_down and codec_ok what the f64 arithmetic and the encoder library do.
proxy_image(c, body, filename_encoded, half_down, codec_ok, b) ==
    LET file == unwrap(c.file)
        decoded == decode_image(body, b.anim)
        c1 == [c EXCEPT !.body = Some(body), !.decoded = Some(decoded),
                        !.filename_encoded = filename_encoded] IN
    IF ~decoded.ok THEN Finish(c1, DecodeErrorOutcome(file))
    ELSE
        LET target_format == target_format_of(c.req.path)
            m == manipulate_image(decoded.images, c.req.options, half_down)
            c2 == [c1 EXCEPT !.target_format = Some(target_format),
                             !.calls = m.calls, !.images = Some(m.images)] IN
        IF is_some(m.returned) THEN Finish(c2, unwrap(m.returned))
        ELSE
            LET e == encode_image(m.images, target_format,
                                  <<file.filename, filename_encoded>>, b, codec_ok)
                c3 == [c2 EXCEPT !.calls = Append(@, Call("encode_image", <<target_format>>)),
                                 !.encoder = Some(e.encoder)] IN
            IF e.panicked THEN Panic(c3)
            ELSE IF ~e.ok THEN Finish(c3, StatusCodeOnly(INTERNAL_SERVER_ERROR))
            ELSE Finish(c3, e.result)

(***************************************************************************)
(* Actions.                                                                *)
(***************************************************************************)
ArcOf(c) == unwrap(c.downloader).troublesome_instances

\* The accept loop takes a connection and spawns its task with a clone of the
\* Downloader.
Accept(t) ==
    /\ conn[t].pc = "idle"
    /\ clients[t] # {}
    /\ conn' = [conn EXCEPT ![t] = [@ EXCEPT !.pc = "accepted",
                                            !.downloader = Some(Downloader_clone(downloader))]]
    /\ UNCHANGED <<downloader, arcs, clients, origin, debug_enabled, build, tests, unix>>

\* A request arrives on the connection (the first, or the next on a kept-alive
\* connection) and runs to its first await.
Handle(t) ==
    /\ conn[t].pc \in {"accepted", "done"}
    /\ Len(arcs[ArcOf(conn[t])].data) < MaxQuarantine
    /\ \E req \in clients[t] : conn' = [conn EXCEPT ![t] = handle(conn[t], req)]
    /\ UNCHANGED <<downloader, arcs, clients, origin, debug_enabled, build, tests, unix>>

\* troublesome_instances.read().await resolves.
AcquireRead(t) ==
    /\ conn[t].pc = "read_wait"
    /\ arcs[ArcOf(conn[t])].writer = NoTask
    /\ arcs' = [arcs EXCEPT ![ArcOf(conn[t])].readers = @ \cup {t}]
    /\ conn' = [conn EXCEPT ![t].pc = "reading"]
    /\ UNCHANGED <<downloader, clients, origin, debug_enabled, build, tests, unix>>

\* A lookup whose read guard lives on to the end of download_file.
ReleaseRead_guard_kept(t) ==
    /\ conn[t].pc = "reading"
    /\ LET worth == conn[t].target_host \notin Range(arcs[ArcOf(conn[t])].data)
           c == [conn[t] EXCEPT !.worth_first_try = worth] IN
        conn' = [conn EXCEPT ![t] =
                IF worth
                THEN [c EXCEPT !.pc = "first_sent",
                               !.sent = <<[variant |-> "direct", ua |-> DefaultUA,
                                           referer |-> None]>>]
                ELSE after_first_try(c, debug_enabled)]
    /\ UNCHANGED <<downloader, arcs, clients, origin, debug_enabled, build, tests, unix>>

\* .contains(&target_host), the read guard is dropped, and the first request is
\* sent (or, for a troublesome host, the code goes on to the retry).
ReleaseRead(t) ==
    /\ conn[t].pc = "reading"
    /\ LET a == ArcOf(conn[t])
           worth == conn[t].target_host \notin Range(arcs[a].data)
           c == [conn[t] EXCEPT !.worth_first_try = worth] IN
        /\ arcs' = [arcs EXCEPT ![a].readers = @ \ {t}]
        /\ conn' = [conn EXCEPT ![t] =
                IF worth
                THEN [c EXCEPT !.pc = "first_sent",
                               !.sent = <<[variant |-> "direct", ua |-> DefaultUA,
                                           referer |-> None]>>]
                ELSE after_first_try(c, debug_enabled)]
    /\ UNCHANGED <<downloader, clients, origin, debug_enabled, build, tests, unix>>

\* The first request's send().await resolves with a response.
FirstResponse(t) ==
    /\ conn[t].pc = "first_sent"
    /\ \E r \in origin.responses :
        conn' = [conn EXCEPT ![t] =
            after_first_try([@ EXCEPT !.resp = Some(r), !.first_status = r.status],
                            debug_enabled)]
    /\ UNCHANGED <<downloader, arcs, clients, origin, debug_enabled, build, tests, unix>>

\* A send().await resolves with a reqwest::Error.
SendError(t) ==
    /\ conn[t].pc \in {"first_sent", "retry_sent"}
    /\ conn' = [conn EXCEPT ![t] = Fail(@, RequestError)]
    /\ UNCHANGED <<downloader, arcs, clients, origin, debug_enabled, build, tests, unix>>

\* A retry that lists the hostname whatever the status of its response.
RetryResponse_any_status(t) ==
    /\ conn[t].pc = "retry_sent"
    /\ \E r \in origin.responses :
        conn' = [conn EXCEPT ![t] = [@ EXCEPT !.resp = Some(r), !.pc = "write_wait"]]
    /\ UNCHANGED <<downloader, arcs, clients, origin, debug_enabled, build, tests, unix>>

\* The second request's send().await resolves with a response.
RetryResponse(t) ==
    /\ conn[t].pc = "retry_sent"
    /\ \E r \in origin.responses :
        LET c == [conn[t] EXCEPT !.resp = Some(r)] IN
        conn' = [conn EXCEPT ![t] =
            IF is_success(r.status) THEN [c EXCEPT !.pc = "write_wait"]
            ELSE check_response(c)]
    /\ UNCHANGED <<downloader, arcs, clients, origin, debug_enabled, build, tests, unix>>

\* troublesome_instances.write().await resolves.
AcquireWrite(t) ==
    /\ conn[t].pc = "write_wait"
    /\ arcs[ArcOf(conn[t])].writer = NoTask
    /\ arcs[ArcOf(conn[t])].readers = {}
    /\ arcs' = [arcs EXCEPT ![ArcOf(conn[t])].writer = t]
    /\ conn' = [conn EXCEPT ![t].pc = "writing"]
    /\ UNCHANGED <<downloader, clients, origin, debug_enabled, build, tests, unix>>

\* .push(target_host), the write guard is dropped, and the response is checked.
Push(t) ==
    /\ conn[t].pc = "writing"
    /\ arcs' = [arcs EXCEPT ![ArcOf(conn[t])] =
                    [@ EXCEPT !.data = Append(@, conn[t].target_host),
                              !.writer = NoTask]]
    /\ conn' = [conn EXCEPT ![t] = check_response(@)]
    /\ UNCHANGED <<downloader, clients, origin, debug_enabled, build, tests, unix>>

\* Whether the body's framing allows `more` further bytes after `len`.
body_allows(resp, len, more) ==
    resp.length.kind = "known" => len + more <= resp.length.n

\* stream.next().await yields a chunk: it is appended, then the length checked.
Chunk(t) ==
    /\ conn[t].pc = "streaming"
    /\ \E k \in origin.chunks :
        LET c == conn[t]
            len == SumSeq(c.limited_buf)
            c1 == [c EXCEPT !.limited_buf = Append(@, k)] IN
        /\ body_allows(unwrap(c.resp), len, k)
        /\ conn' = [conn EXCEPT ![t] =
                IF buffer_oversize(len + k, unwrap(c.downloader).size_limit)
                THEN Fail(c1, Oversize)
                ELSE c1]
    /\ UNCHANGED <<downloader, arcs, clients, origin, debug_enabled, build, tests, unix>>

\* stream.next().await yields an error.
ChunkError(t) ==
    /\ conn[t].pc = "streaming"
    /\ conn' = [conn EXCEPT ![t] = Fail(@, RequestError)]
    /\ UNCHANGED <<downloader, arcs, clients, origin, debug_enabled, build, tests, unix>>

\* The stream ends: download_file returns the file, download_image checks its
\* declared type.
StreamEnd(t) ==
    /\ conn[t].pc = "streaming"
    /\ LET c == conn[t]
           resp == unwrap(c.resp) IN
        /\ resp.length.kind = "known" => SumSeq(c.limited_buf) = resp.length.n
        /\ conn' = [conn EXCEPT ![t] =
                mime_gate([c EXCEPT !.file =
                    Some(DownloadedFile(c.limited_buf, resp.content_type,
                                        filename_of(unwrap(c.req.url),
                                                    resp.content_disposition)))])]
    /\ UNCHANGED <<downloader, arcs, clients, origin, debug_enabled, build, tests, unix>>

\* The rest of proxy_image, which awaits nothing: decode, manipulate, encode.
Process(t) ==
    /\ conn[t].pc = "decode"
    /\ \E body \in origin.bodies, filename_encoded \in origin.encoded_filenames,
          half_down \in BOOLEAN, codec_ok \in BOOLEAN :
        conn' = [conn EXCEPT ![t] =
            proxy_image(conn[t], body, filename_encoded, half_down, codec_ok, build)]
    /\ UNCHANGED <<downloader, arcs, clients, origin, debug_enabled, build, tests, unix>>

\* A unit test of processors.rs calls shrink_inside on the image it built.
test_shrink_inside ==
    /\ tests.fn = "shrink_inside"
    /\ is_none(tests.result)
    /\ tests' = [tests EXCEPT !.result =
            Some(shrink_inside(tests.image, tests.args[1], tests.args[2],
                               tests.half_down))]
    /\ UNCHANGED <<downloader, arcs, conn, clients, origin, debug_enabled, build, unix>>

\* A unit test of processors.rs calls shrink_outside on the image it built.
test_shrink_outside ==
    /\ tests.fn = "shrink_outside"
    /\ is_none(tests.result)
    /\ tests' = [tests EXCEPT !.result = Some(shrink_outside(tests.image, tests.args[1]))]
    /\ UNCHANGED <<downloader, arcs, conn, clients, origin, debug_enabled, build, unix>>

(***************************************************************************)
(* The Unix-socket listener (listener.rs).  unix holds the two files at the *)
(* socket path as the file system has them, the position of                 *)
(* start_unix_socket_listener, and the file operations it has made.         *)
(*   socket : "absent", "live" (another process accepts on it), "stale"     *)
(*            (left by a process that is gone) or "own" (bound here)        *)
(*   lock   : "absent", "other" (another process's pid) or "own"            *)
(***************************************************************************)
\* start_listener with a TCP address: no socket path is looked at.
TcpListener ==
    [pc |-> "tcp", result |-> None, connected |-> None, signal |-> None,
     socket |-> "absent", lock |-> "absent", log |-> <<>>, spawned |-> 0]

\* start_listener with a path, at the first line of start_unix_socket_listener.
UnixStart(socket, lock) ==
    [TcpListener EXCEPT !.pc = "verify", !.socket = socket, !.lock = lock]

\* A `?` that leaves start_unix_socket_listener with the error.
returned(u, result) == [u EXCEPT !.pc = "returned", !.result = Some(result)]

\* fs::remove_file on the socket or the lock path: a missing file is an error,
\* and a present one is unlinked unless the file system refuses (io_ok).
remove_file(u, path, io_ok) ==
    LET ok == io_ok /\ u[path] # "absent" IN
    [u EXCEPT ![path] = IF ok THEN "absent" ELSE @,
              !.log = Append(@, [op |-> "remove_file", path |-> path, ok |-> ok])]

\* fs::write of the pid to the lock path: creates the file or replaces its content.
write_lock_file(u, io_ok) ==
    [u EXCEPT !.lock = IF io_ok THEN "own" ELSE @,
              !.log = Append(@, [op |-> "write", path |-> "lock", ok |-> io_ok])]

\* A cleanup that goes on after a removal that failed and reports success.
cleanup_unix_socket_ignoring_errors(u, socket_ok, lock_ok) ==
    LET a == IF u.socket # "absent" THEN remove_file(u, "socket", socket_ok) ELSE u
        b == IF a.lock # "absent" THEN remove_file(a, "lock", lock_ok) ELSE a
    IN  returned(b, "Ok")

\* cleanup_unix_socket: each file is removed if it exists; the first removal
\* that fails returns its error, and the rest is not attempted.
cleanup_unix_socket(u, socket_ok, lock_ok) ==
    LET a == IF u.socket # "absent" THEN remove_file(u, "socket", socket_ok) ELSE u
    IN  IF a.socket # "absent"
        THEN returned(a, "Err")
        ELSE LET b == IF a.lock # "absent" THEN remove_file(a, "lock", lock_ok) ELSE a
             IN  returned(b, IF b.lock # "absent" THEN "Err" ELSE "Ok")

\* verify_and_cleanup_unix_socket up to its await: a path that does not exist
\* needs no check, any other is connected to.
verify_exists ==
    /\ unix.pc = "verify"
    /\ unix' = [unix EXCEPT !.pc = IF unix.socket = "absent" THEN "bind" ELSE "connect"]
    /\ UNCHANGED <<downloader, arcs, conn, clients, origin, debug_enabled, build, tests>>

\* verify_and_cleanup_unix_socket from the outcome of UnixStream::connect: a
\* connection means the path is in use; without one the socket file is
\* removed, then the lock file if it exists, whose removal may fail unnoticed.
verify_connect ==
    /\ unix.pc = "connect"
    /\ \E socket_ok \in BOOLEAN, lock_ok \in BOOLEAN :
        unix' =
            IF unix.socket = "live"
            THEN returned([unix EXCEPT !.connected = Some(TRUE)], "Err")
            ELSE LET a == remove_file([unix EXCEPT !.connected = Some(FALSE)],
                                      "socket", socket_ok)
                 IN  IF ~a.log[Len(a.log)].ok
                     THEN returned(a, "Err")
                     ELSE [(IF a.lock # "absent" THEN remove_file(a, "lock", lock_ok) ELSE a)
                              EXCEPT !.pc = "bind"]
    /\ UNCHANGED <<downloader, arcs, conn, clients, origin, debug_enabled, build, tests>>

\* UnixListener::bind(socket_path)?: it creates the socket file, and fails on
\* a path that exists or when the file system refuses.
bind ==
    /\ unix.pc = "bind"
    /\ \E io_ok \in BOOLEAN :
        LET ok == io_ok /\ unix.socket = "absent"
            u == [unix EXCEPT !.socket = IF ok THEN "own" ELSE @,
                              !.log = Append(@, [op |-> "bind", path |-> "socket", ok |-> ok])]
        IN  unix' = IF ok THEN [u EXCEPT !.pc = "write_lock"] ELSE returned(u, "Err")
    /\ UNCHANGED <<downloader, arcs, conn, clients, origin, debug_enabled, build, tests>>

\* write_lock_file(socket_path)?, then the accept loop is entered.
write_lock ==
    /\ unix.pc = "write_lock"
    /\ \E io_ok \in BOOLEAN :
        LET u == write_lock_file(unix, io_ok)
        IN  unix' = IF io_ok THEN [u EXCEPT !.pc = "accept"] ELSE returned(u, "Err")
    /\ UNCHANGED <<downloader, arcs, conn, clients, origin, debug_enabled, build, tests>>

\* The accept arm of the loop's select!: a connection is handed to a spawned
\* task and the loop goes on; an accept error leaves the loop as it is.
accept ==
    /\ unix.pc = "accept"
    /\ \E io_ok \in BOOLEAN :
        IF io_ok
        THEN /\ unix.spawned < MaxSpawned
             /\ unix' = [unix EXCEPT !.spawned = @ + 1]
        ELSE unix' = returned(unix, "Err")
    /\ UNCHANGED <<downloader, arcs, conn, clients, origin, debug_enabled, build, tests>>

\* The ctrl_c arm of the loop's select!: cleanup_unix_socket(..)?; return Ok(()).
ctrl_c ==
    /\ unix.pc = "accept"
    /\ \E socket_ok \in BOOLEAN, lock_ok \in BOOLEAN :
        unix' = cleanup_unix_socket([unix EXCEPT !.signal = Some("SIGINT")],
                                    socket_ok, lock_ok)
    /\ UNCHANGED <<downloader, arcs, conn, clients, origin, debug_enabled, build, tests>>

\* The sigterm_future arm of the loop's select!, the same for SIGTERM.
sigterm ==
    /\ unix.pc = "accept"
    /\ \E socket_ok \in BOOLEAN, lock_ok \in BOOLEAN :
        unix' = cleanup_unix_socket([unix EXCEPT !.signal = Some("SIGTERM")],
                                    socket_ok, lock_ok)
    /\ UNCHANGED <<downloader, arcs, conn, clients, origin, debug_enabled, build, tests>>

\* Environment: the process that accepts on the path goes away without
\* removing its files, as a killed instance of this program does.
other_process_exits ==
    /\ unix.socket = "live"
    /\ unix' = [unix EXCEPT !.socket = "stale"]
    /\ UNCHANGED <<downloader, arcs, conn, clients, origin, debug_enabled, build, tests>>

Step(t) ==
    \/ Accept(t)
    \/ Handle(t)
    \/ AcquireRead(t)
    \/ ReleaseRead(t)
    \/ FirstResponse(t)
    \/ SendError(t)
    \/ RetryResponse(t)
    \/ AcquireWrite(t)
    \/ Push(t)
    \/ Chunk(t)
    \/ ChunkError(t)
    \/ StreamEnd(t)
    \/ Process(t)

Next == \E t \in Tasks : Step(t)

(***************************************************************************)
(* Specifications.  They share the program and differ in the environment:  *)
(* Spec has one connection and every kind of request and response;         *)
(* SpecConc has two concurrent connections and plain requests/responses.   *)
(***************************************************************************)
InitProgram ==
    /\ downloader = Downloader_new(SizeLimit, 0)
    /\ arcs = [a \in ArcIds |-> [data |-> <<>>, readers |-> {}, writer |-> NoTask]]
    /\ conn = [t \in Tasks |-> IdleConn]

HealthcheckRequest == NoRequest
\* The requests of Spec.  A request that download_image rejects before the
\* fetch is drawn with one url and no host, since neither is read.
PassesValidation(r) == r.url # None /\ r.ua = Some(BrowserUA)
\* A healthcheck has no query string, so no parameters; its headers are free.
HealthcheckRequests == {[HealthcheckRequest EXCEPT !.ua = ua] : ua \in Option(UserAgents)}
AllRequests ==
    HealthcheckRequests
    \cup {r \in Requests :
            /\ r.has_query
            /\ r.path = "/"
            /\ r.options = {}
            /\ (~PassesValidation(r) =>
                    r.host = None /\ r.url \in {None, Some(UrlA)})
            /\ r.url \notin {Some(UrlB), Some(UrlQuery)}}
PlainRequests ==
    {r \in Requests : /\ r.has_query
                      /\ r.path = "/"
                      /\ r.options = {}
                      /\ r.ua = Some(BrowserUA)
                      /\ r.host \in {None, Some(RefHost)}
                      /\ r.url \in {Some(UrlA), Some(UrlB)}}
PlainResponses ==
    {r \in Responses : /\ r.status \in {200, 404}
                       /\ r.length = LenNone
                       /\ r.content_type \in {None, Some(ImagePng)}
                       /\ (r.status = 200 => r.content_type # None)}

\* A release build with the anim feature.
ReleaseBuild == [anim |-> TRUE, overflow_checks |-> FALSE]
\* No unit test is running.
NoTest == [fn |-> "", image |-> Image(1, 1, Delay_from_numer_denom_ms(0, 1)),
           args |-> <<>>, half_down |-> FALSE, result |-> None]
PlainBodies == {NotAnImage, CorruptPng, StaticPng(129, 129)}

Init ==
    /\ InitProgram
    /\ clients = [t \in Tasks |-> IF t = "t1" THEN AllRequests ELSE {}]
    /\ origin = [responses |-> Responses, chunks |-> 1..MaxChunk, bodies |-> PlainBodies,
                 encoded_filenames |-> {None}]
    /\ debug_enabled \in BOOLEAN
    /\ build = ReleaseBuild
    /\ tests = NoTest
    /\ unix = TcpListener

InitConc ==
    /\ InitProgram
    /\ clients = [t \in Tasks |-> PlainRequests]
    /\ origin = [responses |-> PlainResponses, chunks |-> {MaxChunk},
                 bodies |-> PlainBodies,
                 encoded_filenames |-> {None}]
    /\ debug_enabled = FALSE
    /\ build = ReleaseBuild
    /\ tests = NoTest
    /\ unix = TcpListener

\* SpecImage: one connection that repeats one request with a well-formed url,
\* host and user-agent, any path and any set of options; origins that answer
\* 200 or 404 and send every kind of body; every build.
ImageRequests ==
    {r \in Requests : /\ r.has_query
                      /\ r.url = Some(UrlA)
                      /\ r.host = Some(RefHost)
                      /\ r.ua = Some(BrowserUA)}
ImageResponses ==
    {r \in Responses : /\ r.status \in {200, 404}
                       /\ r.length = LenNone
                       /\ r.content_type \in {None, Some(ImagePng), Some(TextHtml)}}
PngWidths == {1, 128, 129, 500}
PngHeights == {1, 128, 200, 400}
FrameDelays == {Delay_from_numer_denom_ms(0, 1), Delay_from_numer_denom_ms(1000, 3)}
\* Frames of an animation share the size of its canvas.
Frames(delays) == [i \in DOMAIN delays |-> Image(200, 150, delays[i])]
ImageBodies ==
    {NotAnImage, CorruptPng, RotatedPng(300, 200), StaticPng(496, 155)}
    \cup {StaticPng(w, h) : w \in PngWidths, h \in PngHeights}
    \cup {AnimatedGif(Frames(d)) : d \in {<<>>} \cup UNION {[1..n -> FrameDelays] : n \in 1..2}}
    \cup {AnimatedPng(Frames([i \in 1..n |-> LongApngDelay])) : n \in {3, MaxFrames}}

InitImage ==
    /\ InitProgram
    /\ \E r \in ImageRequests : clients = [t \in Tasks |-> IF t = "t1" THEN {r} ELSE {}]
    /\ origin = [responses |-> ImageResponses, chunks |-> {MaxChunk},
                 bodies |-> ImageBodies,
                 encoded_filenames |-> {None}]
    /\ debug_enabled = FALSE
    /\ build \in [anim : BOOLEAN, overflow_checks : BOOLEAN]
    /\ tests = NoTest
    /\ unix = TcpListener

\* SpecResize: the unit tests of processors.rs, over every image and box size
\* up to MaxDim and the sizes the repository's own tests use.
TestSides == (1..MaxDim) \cup {12, 18, 24}
TestBoxes == (1..MaxDim) \cup {20}
TestImages == {Image(w, h, Delay_from_numer_denom_ms(0, 1)) : w, h \in TestSides}
TestCalls ==
    [fn : {"shrink_inside"}, image : TestImages,
     args : {<<bw, bh>> : bw, bh \in TestBoxes}, half_down : BOOLEAN, result : {None}]
    \cup [fn : {"shrink_outside"}, image : TestImages,
          args : {<<size>> : size \in TestBoxes}, half_down : {FALSE}, result : {None}]

InitResize ==
    /\ InitProgram
    /\ clients = [t \in Tasks |-> {}]
    /\ origin = [responses |-> {}, chunks |-> {}, bodies |-> {},
                 encoded_filenames |-> {None}]
    /\ debug_enabled = FALSE
    /\ build = ReleaseBuild
    /\ tests \in TestCalls
    /\ unix = TcpListener

NextTests == test_shrink_inside \/ test_shrink_outside

\* SpecLive: two connections under fair scheduling.  The
\* tokio runtime polls every task that is ready (weak fairness of each task's
\* step); tokio's RwLock queues its waiters first-in first-out, so a task that
\* waits for the lock is served although the lock is taken and released by
\* others in between (strong fairness of the two acquisitions).
Fairness ==
    \A t \in Tasks :
        /\ WF_vars(Step(t))
        /\ SF_vars(AcquireRead(t))
        /\ SF_vars(AcquireWrite(t))

\* Two connections that ask for one url, with or without a host parameter, of
\* an origin that answers 200 or 404 and sends a PNG.
LiveRequests == {r \in PlainRequests : r.url = Some(UrlA)}
InitLive ==
    /\ InitProgram
    /\ clients = [t \in Tasks |-> LiveRequests]
    /\ origin = [responses |-> PlainResponses, chunks |-> {MaxChunk},
                 bodies |-> {StaticPng(129, 129)},
                 encoded_filenames |-> {None}]
    /\ debug_enabled = FALSE
    /\ build = ReleaseBuild
    /\ tests = NoTest
    /\ unix = TcpListener

\* SpecFile: one connection that asks for a PNG by a url with or without a
\* query string, under every path; origins that name the file in every way
\* Content-Disposition allows, with or without an encoded form of the name.
FileRequests ==
    {r \in Requests : /\ r.has_query
                      /\ r.options = {}
                      /\ r.ua = Some(BrowserUA)
                      /\ r.host = Some(RefHost)
                      /\ r.url \in {Some(UrlA), Some(UrlQuery)}}
EncodedFilenames ==
    {None, Some(<<"U", "T", "F", "-", "8", "'", "'", "d">>), Some(<<"U", "T", "F", "-", "8", "'", "'", "d", ".", "w", "e", "b", "p">>)}
InitFile ==
    /\ InitProgram
    /\ clients = [t \in Tasks |-> IF t = "t1" THEN FileRequests ELSE {}]
    /\ origin = [responses |-> DispositionResponses, chunks |-> {MaxChunk},
                 bodies |-> {StaticPng(1, 1)},
                 encoded_filenames |-> EncodedFilenames]
    /\ debug_enabled = FALSE
    /\ build = ReleaseBuild
    /\ tests = NoTest
    /\ unix = TcpListener

\* SpecUnix: start_listener with a socket path.  The path holds no file, the
\* socket of a running process or one left behind, with or without a lock
\* file; file operations succeed or fail as the file system decides.
UnixStarts ==
    {UnixStart(socket, lock) : socket \in {"absent", "live", "stale"},
                               lock \in {"absent", "other"}}
InitUnix ==
    /\ InitProgram
    /\ clients = [t \in Tasks |-> {}]
    /\ origin = [responses |-> {}, chunks |-> {}, bodies |-> {},
                 encoded_filenames |-> {None}]
    /\ debug_enabled = FALSE
    /\ build = ReleaseBuild
    /\ tests = NoTest
    /\ unix \in UnixStarts

NextUnix ==
    \/ verify_exists
    \/ verify_connect
    \/ bind
    \/ write_lock
    \/ accept
    \/ ctrl_c
    \/ sigterm
    \/ other_process_exits

Spec == Init /\ [][Next]_vars
SpecConc == InitConc /\ [][Next]_vars
SpecImage == InitImage /\ [][Next]_vars
SpecResize == InitResize /\ [][NextTests]_vars
SpecLive == InitLive /\ [][Next]_vars /\ Fairness
SpecFile == InitFile /\ [][Next]_vars
SpecUnix == InitUnix /\ [][NextUnix]_vars

(***************************************************************************)
(* Properties.                                                             *)
(***************************************************************************)
size_limit_of(c) == unwrap(c.downloader).size_limit

\* download_file was entered with a url that has a host, and has ended (by a
\* return or by a panic).
FetchEnded(c) == c.target_host # "" /\ c.pc \in {"done", "panicked", "decode"}

\* The quarantine list main()'s Downloader points to.
QuarantineList == arcs[downloader.troublesome_instances].data

\* C1: while the body is being streamed the accumulated length is at most the
\* cap; the buffer less its last chunk is always within the cap (so it never
\* holds more than the cap plus that one chunk); and once the accumulated length
\* exceeds the cap the call has stopped reading and failed Oversize, the outcome
\* being Redirect.
C1_StreamingCap ==
    \A t \in Tasks :
        LET c == conn[t]
            len == SumSeq(c.limited_buf) IN
        c.limited_buf # <<>> =>
            /\ c.pc = "streaming" => len <= size_limit_of(c)
            /\ len - c.limited_buf[Len(c.limited_buf)] <= size_limit_of(c)
            /\ len > size_limit_of(c) =>
                /\ c.pc # "streaming"
                /\ c.error = Some(Oversize)
                /\ is_some(c.outcome)
                /\ unwrap(c.outcome).tag = "Redirect"

\* C1 witness: a Content-Length header under-reported the body, and the second
\* or later chunk took the buffer over the cap.
C1_Witness ==
    \E t \in Tasks :
        LET c == conn[t] IN
        /\ c.error = Some(Oversize)
        /\ Len(c.limited_buf) >= 2
        /\ unwrap(c.resp).length.kind = "header"
        /\ unwrap(c.resp).length.n < SumSeq(c.limited_buf)
        /\ SumSeq(c.limited_buf) > SizeLimit

\* The length a response declares, if it declares one the code can read.
Declares(resp) == resp.length.kind \in {"known", "header"}

\* C2: when the final response has a 2xx status other than 204 and declares a
\* length above the cap, no chunk of the body is read, the call fails Oversize
\* and the request is answered 302 with Location = the requested url.
C2_DeclaredOversizeRedirects ==
    \A t \in Tasks :
        LET c == conn[t] IN
        (/\ FetchEnded(c)
         /\ is_some(c.resp)
         /\ unwrap(c.resp).status \in 200..299
         /\ unwrap(c.resp).status # 204
         /\ Declares(unwrap(c.resp))
         /\ unwrap(c.resp).length.n > size_limit_of(c)) =>
            /\ c.limited_buf = <<>>
            /\ c.error = Some(Oversize)
            /\ c.outcome = Some(Redirectable(unwrap(c.req.url)))
            /\ is_some(c.response)
            /\ unwrap(c.response).status = FOUND
            /\ unwrap(c.response).location = c.req.url

\* The number of bytes an outcome carries: the healthcheck's body is a literal
\* string, every other body is held as the lengths of its chunks.
OutcomeLen(outcome) ==
    IF outcome.tag = "Healthcheck" THEN Len(outcome.bytes) ELSE SumSeq(outcome.bytes)

\* C3: a file that download_file returned is never longer than the cap, and no
\* outcome other than Redirect carries more bytes than the cap.
C3_ReturnedWithinCap ==
    \A t \in Tasks :
        LET c == conn[t] IN
        /\ is_some(c.file) => SumSeq(unwrap(c.file).bytes) <= size_limit_of(c)
        /\ (is_some(c.outcome) /\ unwrap(c.outcome).tag # "Redirect") =>
                OutcomeLen(unwrap(c.outcome)) <= size_limit_of(c)

\* C3 witness: a body of exactly cap bytes was returned.
C3_Witness ==
    \E t \in Tasks :
        /\ is_some(conn[t].file)
        /\ SumSeq(unwrap(conn[t].file).bytes) = SizeLimit

\* C4: when the hostname was not quarantined and the first (default-UA) request
\* was answered 4xx, a second request is made with the caller's user-agent and
\* Referer = host; if it is answered 2xx the hostname is in the list when the
\* call has ended.
C4_RetryThenQuarantine ==
    \A t \in Tasks :
        LET c == conn[t] IN
        (FetchEnded(c) /\ c.worth_first_try /\ c.first_status \in 400..499) =>
            /\ Len(c.sent) = 2
            /\ c.sent[2].variant = "retry"
            /\ c.sent[2].ua = unwrap(c.req.ua)
            /\ c.sent[2].referer = c.req.host
            /\ unwrap(c.resp).status \in 200..299 =>
                    c.target_host \in Range(QuarantineList)

\* C5: a call for a hostname found in the list sends exactly one request, the
\* caller-user-agent one, and ends with a file or a FileDownloadError.
C5_QuarantinedSingleRequest ==
    \A t \in Tasks :
        LET c == conn[t] IN
        (FetchEnded(c) /\ ~c.worth_first_try) =>
            /\ Len(c.sent) = 1
            /\ c.sent[1].variant = "retry"
            /\ c.sent[1].ua = unwrap(c.req.ua)
            /\ is_some(c.file) \/ is_some(c.error)

\* C6: when the hostname is quarantined or the first response is 4xx, the
\* caller-user-agent request is made with or without a host parameter, which
\* only decides its Referer header.
C6_RetryWithOrWithoutReferer ==
    \A t \in Tasks :
        LET c == conn[t] IN
        (FetchEnded(c) /\ (~c.worth_first_try \/ c.first_status \in 400..499)) =>
            /\ c.sent # <<>>
            /\ c.sent[Len(c.sent)].variant = "retry"
            /\ c.sent[Len(c.sent)].referer = c.req.host

\* C7: no hostname occurs twice in the quarantine list.
C7_QuarantineIsASet ==
    \A a \in ArcIds :
        \A i, j \in DOMAIN arcs[a].data :
            i # j => arcs[a].data[i] # arcs[a].data[j]

\* C8: every step leaves each quarantine list a prefix of what it becomes
\* (entries are only appended, never removed or replaced), and every
\* connection's Downloader clone points to the list of main()'s Downloader.
C8_AppendOnlyShared ==
    [][/\ \A a \in ArcIds :
            /\ Len(arcs[a].data) <= Len(arcs'[a].data)
            /\ SubSeq(arcs'[a].data, 1, Len(arcs[a].data)) = arcs[a].data
       /\ downloader' = downloader
       /\ \A t \in Tasks :
            is_some(conn'[t].downloader) =>
                unwrap(conn'[t].downloader).troublesome_instances
                    = downloader.troublesome_instances]_vars

\* C8 witness: both connections hold a clone, a hostname is in the list, and a
\* later caller-user-agent request for that hostname has failed.
C8_Witness ==
    /\ \A t \in Tasks : is_some(conn[t].downloader)
    /\ \E t \in Tasks :
        LET c == conn[t] IN
        /\ c.pc = "done"
        /\ ~c.worth_first_try
        /\ is_some(c.error)
        /\ unwrap(c.error).kind = "InvalidStatusCode"
        /\ c.target_host \in Range(QuarantineList)

C10_ErrorMapping ==
    \A t \in Tasks :
        LET c == conn[t] IN
        is_some(c.error) =>
            LET e == unwrap(c.error) IN
            /\ e.kind \in {"Oversize", "InvalidStatusCode", "InvalidUrl", "RequestError"}
            /\ is_some(c.outcome)
            /\ is_none(c.file)
            /\ e.kind = "Oversize" =>
                    /\ unwrap(c.outcome).tag = "Redirect"
                    /\ unwrap(c.outcome).url = unwrap(c.req.url)
            /\ e.kind = "InvalidStatusCode" =>
                    /\ unwrap(c.outcome).tag = "StatusOnly"
                    /\ unwrap(c.outcome).code = e.code
            /\ e.kind = "InvalidUrl" =>
                    /\ unwrap(c.outcome).tag = "StatusOnly"
                    /\ unwrap(c.outcome).code = 400
            /\ e.kind = "RequestError" =>
                    /\ unwrap(c.outcome).tag = "StatusOnly"
                    /\ unwrap(c.outcome).code = 500

\* C10 witness: a url without a host failed InvalidUrl and was answered 400.
C10_Witness ==
    \E t \in Tasks :
        LET c == conn[t] IN
        /\ c.req.url = Some(UrlNoHost)
        /\ c.error = Some(InvalidUrl)
        /\ c.outcome = Some(StatusCodeOnly(400))
        /\ c.pc = "done"

\* The task has taken a request (handle has run for it).
Handled(c) == c.pc \notin {"idle", "accepted"}

\* C11: a request that has a query string but no url parameter, or no
\* User-Agent header, is answered 400 with no request sent to any origin; a
\* request without url is answered with an empty body whatever else it lacks.
\* (handle runs such a request in one step, which leaves the quarantine list
\* alone.)
C11_MissingInputRejected ==
    \A t \in Tasks :
        LET c == conn[t] IN
        (Handled(c) /\ c.req.has_query /\ (is_none(c.req.url) \/ is_none(c.req.ua))) =>
            /\ c.pc = "done"
            /\ c.outcome = Some(StatusCodeOnly(400))
            /\ unwrap(c.response).status = 400
            /\ c.sent = <<>>
            /\ c.target_host = ""
            /\ is_none(c.req.url) => unwrap(c.response).body = <<>>

\* A user-agent that names this proxy class: a Misskey server's, or the string
\* the Downloader itself sends on its first try.
IdentifiesProxy(ua) ==
    \/ ua = DefaultUA
    \/ starts_with(to_lowercase(ua), <<"m", "i", "s", "s", "k", "e", "y", "/">>)

\* C12: a request with a url whose user-agent names this proxy class, the
\* Downloader's own first-try user-agent included, is answered 403 and no
\* request is sent to any origin.
C12_LoopPrevention ==
    \A t \in Tasks :
        LET c == conn[t] IN
        (/\ Handled(c)
         /\ c.req.has_query
         /\ is_some(c.req.url)
         /\ is_some(c.req.ua)
         /\ IdentifiesProxy(unwrap(c.req.ua))) =>
            /\ c.pc = "done"
            /\ c.outcome = Some(StatusCodeOnly(403))
            /\ c.sent = <<>>
            /\ c.target_host = ""

ImagePrefix == <<"i", "m", "a", "g", "e", "/">>

\* C13: once a file is downloaded, a declared content-type that does not start
\* with "image/" ends the request as RawPassthrough with exactly the bytes
\* received and that type, and the decoder is never invoked; with no declared
\* content-type the file goes to the decoder.
C13_MimeGate ==
    \A t \in Tasks :
        LET c == conn[t] IN
        is_some(c.file) =>
            LET file == unwrap(c.file) IN
            /\ (is_some(file.content_type)
                  /\ ~starts_with(unwrap(file.content_type), ImagePrefix)) =>
                    /\ c.pc = "done"
                    /\ unwrap(c.outcome).tag = "RawPassthrough"
                    /\ unwrap(c.outcome).bytes = c.limited_buf
                    /\ unwrap(c.outcome).content_type = unwrap(c.resp).content_type
                    /\ unwrap(c.response).body = c.limited_buf
                    /\ is_none(c.decoded)
            /\ is_none(file.content_type) => (c.pc = "decode" \/ is_some(c.decoded))

\* C13 witness: a text/html body of two chunks was passed through undecoded.
C13_Witness ==
    \E t \in Tasks :
        LET c == conn[t] IN
        /\ c.pc = "done"
        /\ is_some(c.file)
        /\ unwrap(c.file).content_type = Some(TextHtml)
        /\ Len(c.limited_buf) = 2
        /\ unwrap(c.outcome).tag = "RawPassthrough"
        /\ is_none(c.decoded)

\* C14: when the decoder fails, by not recognising the format or by a codec
\* error, the request ends as RawPassthrough with the bytes received and the
\* declared content-type, answered 200; no transform or encode has run and the
\* outcome is never StatusOnly, whatever the options.
C14_DecodeFailurePassthrough ==
    \A t \in Tasks :
        LET c == conn[t] IN
        (is_some(c.decoded) /\ ~unwrap(c.decoded).ok) =>
            /\ c.pc = "done"
            /\ unwrap(c.outcome).tag = "RawPassthrough"
            /\ unwrap(c.outcome).tag # "StatusOnly"
            /\ unwrap(c.outcome).bytes = c.limited_buf
            /\ unwrap(c.outcome).content_type = unwrap(c.resp).content_type
            /\ unwrap(c.response).status = 200
            /\ unwrap(c.response).body = c.limited_buf
            /\ c.calls = <<>>

\* C14 witness: a codec error on a request with the badge and emoji options.
C14_Witness ==
    \E t \in Tasks :
        LET c == conn[t] IN
        /\ is_some(c.decoded)
        /\ unwrap(c.decoded).err = "ImageError"
        /\ {"badge", "emoji"} \subseteq c.req.options
        /\ unwrap(c.outcome).tag = "RawPassthrough"
        /\ unwrap(c.response).status = 200

\* The options that select a transform ahead of badge.
TransformOptions == {"emoji", "avatar", "static", "preview"}

\* C15 as stated: a request with the badge option whose image was fetched and
\* decoded ends as StatusOnly(501) with no transform, truncation or encode
\* having run, whichever other options accompany badge.
C15_BadgeAlwaysNotImplemented ==
    \A t \in Tasks :
        LET c == conn[t] IN
        (/\ is_some(c.decoded)
         /\ unwrap(c.decoded).ok
         /\ "badge" \in c.req.options) =>
            /\ c.pc = "done"
            /\ c.outcome = Some(StatusCodeOnly(501))
            /\ c.calls = <<>>

\* C15 amended: a request with the badge option and none of emoji, avatar,
\* static, preview, whose image was fetched and decoded, ends as
\* StatusOnly(501), answered 501 with an empty body, with no transform,
\* truncation or encode having run; with any of those four options the
\* request is not answered 501.
C15_BadgeAloneNotImplemented ==
    \A t \in Tasks :
        LET c == conn[t] IN
        (/\ is_some(c.decoded)
         /\ unwrap(c.decoded).ok
         /\ "badge" \in c.req.options) =>
            /\ (c.req.options \cap TransformOptions = {}) =>
                    /\ c.pc = "done"
                    /\ c.outcome = Some(StatusCodeOnly(501))
                    /\ unwrap(c.response).status = 501
                    /\ unwrap(c.response).body = <<>>
                    /\ c.calls = <<>>
                    /\ is_none(c.encoder)
            /\ (c.req.options \cap TransformOptions # {}) =>
                    /\ c.outcome # Some(StatusCodeOnly(501))
                    /\ c.calls # <<>>

\* C15 witness: an animated image too large for every box, requested with
\* badge alone, was decoded and answered 501 with nothing called on it.
C15_Witness ==
    \E t \in Tasks :
        LET c == conn[t] IN
        /\ c.req.options = {"badge"}
        /\ is_some(c.decoded)
        /\ unwrap(c.decoded).ok
        /\ Len(unwrap(c.decoded).images) = 2
        /\ c.outcome = Some(StatusCodeOnly(501))
        /\ c.calls = <<>>

\* The rule the claim gives for an option set, as a table.
RuleTable(o) ==
    {r \in {"cover128", "cover320", "fit498x422", "fit200x200",
            "not_implemented", "unchanged"} :
        \/ r = "cover128" /\ "emoji" \in o
        \/ r = "cover320" /\ "avatar" \in o /\ "emoji" \notin o
        \/ r = "fit498x422" /\ "static" \in o /\ o \cap {"emoji", "avatar"} = {}
        \/ r = "fit200x200" /\ "preview" \in o
                            /\ o \cap {"emoji", "avatar", "static"} = {}
        \/ r = "not_implemented" /\ "badge" \in o /\ o \cap TransformOptions = {}
        \/ r = "unchanged" /\ o = {}}

\* The rules a handled request shows to have been applied.
RulesApplied(c) ==
    LET called == Range(c.calls)
        before == unwrap(c.decoded).images
        after == unwrap(c.images)
        cover(size) ==
            /\ Call("shrink_outside_vec", <<size>>) \in called
            /\ \/ after = shrink_outside_vec(before, size)
               \/ /\ "static" \in c.req.options
                  /\ Call("truncate", <<1>>) \in called
                  /\ after = truncate(shrink_outside_vec(before, size), 1)
        fit(w, h) ==
            /\ Call("shrink_inside_vec", <<w, h>>) \in called
            /\ \E half_down \in BOOLEAN :
                   after = shrink_inside_vec(before, w, h, half_down) IN
    {r \in {"cover128", "cover320", "fit498x422", "fit200x200",
            "not_implemented", "unchanged"} :
        \/ r = "cover128" /\ cover(128)
        \/ r = "cover320" /\ cover(320)
        \/ r = "fit498x422" /\ fit(498, 422)
        \/ r = "fit200x200" /\ fit(200, 200)
        \/ r = "not_implemented" /\ c.outcome = Some(StatusCodeOnly(501))
        \/ r = "unchanged" /\ after = before
                           /\ c.outcome # Some(StatusCodeOnly(501))
                           /\ called \subseteq {Call("encode_image",
                                                     <<unwrap(c.target_format)>>)}}

\* C16: for every subset of {emoji, avatar, static, preview, badge}, a request
\* whose image was decoded has exactly one rule applied, the first that
\* matches in the order emoji (cover-fill 128), avatar (cover-fill 320),
\* static (fit within 498x422), preview (fit within 200x200), badge (not
\* implemented), none (FrameSet unchanged); at most one resize function is
\* called.
C16_FirstMatchTransform ==
    \A t \in Tasks :
        LET c == conn[t] IN
        (is_some(c.decoded) /\ unwrap(c.decoded).ok) =>
            /\ Cardinality(RuleTable(c.req.options)) = 1
            /\ RulesApplied(c) = RuleTable(c.req.options)
            /\ Cardinality({i \in 1..Len(c.calls) :
                   c.calls[i].fn \in {"shrink_outside_vec", "shrink_inside_vec"}}) <= 1

\* C16 witness: a 500x400 PNG requested with all five options was cover-filled
\* to 160x128 by the emoji rule and nothing else.
C16_Witness ==
    \E t \in Tasks :
        LET c == conn[t] IN
        /\ c.req.options = {"emoji", "avatar", "static", "preview", "badge"}
        /\ is_some(c.decoded)
        /\ unwrap(c.decoded).ok
        /\ Len(unwrap(c.decoded).images) = 1
        /\ unwrap(c.decoded).images[1].width = 500
        /\ unwrap(c.decoded).images[1].height = 400
        /\ RulesApplied(c) = {"cover128"}
        /\ unwrap(c.images)[1].width = 160
        /\ unwrap(c.images)[1].height = 128

\* r is numer / denom rounded to an integer, a half going either way.
IsRounded(r, numer, denom) ==
    /\ 2 * r * denom <= 2 * numer + denom
    /\ 2 * numer - denom <= 2 * r * denom

\* C17: shrink_inside leaves an image of width <= boxW and height <= boxH as
\* it is; any other image comes out with width <= boxW and height <= boxH, the
\* side that is larger relative to its box edge equal to that edge, and the
\* other side the rounded aspect-preserving length (at least 1).
C17_ShrinkInside ==
    (tests.fn = "shrink_inside" /\ is_some(tests.result)) =>
        LET w == tests.image.width
            h == tests.image.height
            boxW == tests.args[1]
            boxH == tests.args[2]
            r == unwrap(tests.result) IN
        IF w <= boxW /\ h <= boxH
        THEN r = tests.image
        ELSE /\ r.width <= boxW
             /\ r.height <= boxH
             /\ r.delay = tests.image.delay
             /\ (w * boxH >= h * boxW) =>
                    /\ r.width = boxW
                    /\ IsRounded(r.height, h * boxW, w) \/ r.height = 1
             /\ (w * boxH <= h * boxW) =>
                    /\ r.height = boxH
                    /\ IsRounded(r.width, w * boxH, h) \/ r.width = 1

\* C17 witness: the two unit tests, 18x18 in 20x20 left alone and 18x9 in
\* 10x10 resized to 10x5.
C17_Witness ==
    /\ tests.fn = "shrink_inside"
    /\ is_some(tests.result)
    /\ tests.image.width = 18
    /\ tests.image.height = 9
    /\ tests.args = <<10, 10>>
    /\ unwrap(tests.result).width = 10
    /\ unwrap(tests.result).height = 5

\* C18: shrink_outside leaves an image with width <= target or height <=
\* target as it is; any other image comes out with its shorter side equal to
\* target and its longer side equal to round(target * longer / shorter), a
\* half rounding up, so that a square image comes out target x target.
C18_ShrinkOutside ==
    (tests.fn = "shrink_outside" /\ is_some(tests.result)) =>
        LET w == tests.image.width
            h == tests.image.height
            target == tests.args[1]
            r == unwrap(tests.result)
            \* n = round(target * longer / shorter)
            Round(n, longer, shorter) ==
                /\ 2 * n * shorter <= 2 * target * longer + shorter
                /\ 2 * target * longer + shorter < 2 * (n + 1) * shorter IN
        IF w <= target \/ h <= target
        THEN r = tests.image
        ELSE /\ r.delay = tests.image.delay
             /\ (w >= h) => (r.height = target /\ Round(r.width, w, h))
             /\ (w <= h) => (r.width = target /\ Round(r.height, h, w))
             /\ (w = h) => (r.width = target /\ r.height = target)

\* C18 witness: the unit test, 24x12 with target 10 resized to 20x10.
C18_Witness ==
    /\ tests.fn = "shrink_outside"
    /\ is_some(tests.result)
    /\ tests.image.width = 24
    /\ tests.image.height = 12
    /\ tests.args = <<10>>
    /\ unwrap(tests.result).width = 20
    /\ unwrap(tests.result).height = 10

\* A request for a static PNG with the emoji option and no path extension that
\* proxy_image has finished with, the encoder library having accepted the
\* image.
EmojiStaticPng(c) ==
    /\ c.pc = "done"
    /\ "emoji" \in c.req.options
    /\ c.req.path = "/"
    /\ is_some(c.body)
    /\ unwrap(c.body).format = Some("Png")
    /\ ~unwrap(c.body).animated
    /\ is_some(c.decoded)
    /\ unwrap(c.decoded).ok
    /\ is_some(c.encoder)
    /\ unwrap(c.encoder).accepted

DotWebp == <<".", "w", "e", "b", "p">>

floor_ms(delay) == delay.numer \div delay.denom

\* C20: for an N-frame FrameSet encoded by encode_webp, N add_frame calls are
\* made, in sequence order, frame 1 at timestamp 0 and each later frame at the
\* timestamp of the frame before it plus that frame's delay in whole
\* milliseconds; the encoder is then finalized with the last frame's timestamp
\* plus the last frame's delay, the sum over all N frames.
C20_CumulativeTimestamps ==
    \A t \in Tasks :
        LET c == conn[t] IN
        (/\ is_some(c.encoder)
         /\ unwrap(c.encoder).kind = "encode_webp"
         /\ unwrap(c.encoder).accepted
         /\ unwrap(c.images) # <<>>) =>
            LET images == unwrap(c.images)
                N == Len(images)
                written == unwrap(c.encoder).add_frame
                finalize == unwrap(c.encoder).finalize IN
            /\ Len(written) = N
            /\ \A i \in 1..N : written[i].frame = i
            /\ written[1].timestamp_ms = 0
            /\ \A i \in 2..N :
                   /\ written[i].timestamp_ms >= written[i - 1].timestamp_ms
                   /\ written[i].timestamp_ms - written[i - 1].timestamp_ms
                        = floor_ms(images[i - 1].delay)
            /\ is_some(finalize)
            /\ unwrap(finalize) >= written[N].timestamp_ms
            /\ unwrap(finalize) - written[N].timestamp_ms = floor_ms(images[N].delay)

\* Whether the build's encoder for the target takes every frame.
TakesEveryFrame(target_format, b) ==
    (target_format = "WebP" /\ b.anim) \/ target_format = "Gif"

\* C21: whenever a FrameSet reaches encode_image and the encoder library
\* accepts what it is given, WebP (in a build with the anim feature) and GIF
\* are given every frame of the FrameSet in order, GIF with each frame's own
\* delay, and every other target is given frame 0 alone.
C21_EncoderDispatch ==
    \A t \in Tasks :
        LET c == conn[t] IN
        (is_some(c.encoder) /\ unwrap(c.encoder).accepted) =>
            LET images == unwrap(c.images)
                e == unwrap(c.encoder)
                target_format == unwrap(c.target_format) IN
            IF TakesEveryFrame(target_format, build)
            THEN /\ Len(e.add_frame) = Len(images)
                 /\ \A i \in DOMAIN e.add_frame : e.add_frame[i].frame = i
                 /\ Len(e.frames) = Len(images)
                 /\ \A i \in DOMAIN e.frames :
                        /\ e.frames[i].delay = images[i].delay
                        /\ e.frames[i].buffer.width = images[i].width
                        /\ e.frames[i].buffer.height = images[i].height
                 /\ c.pc = "done"
            ELSE /\ Len(e.add_frame) = 1
                 /\ e.add_frame[1].frame = 1
                 /\ e.frames = <<>>
                 /\ c.pc = "done"

\* C22: a request without a query string is answered 200 with the body "OK"
\* and no headers, whatever its user-agent: no validation outcome, no request
\* sent to an origin, no hostname looked up and neither lock of the quarantine
\* list taken.  A request with a query string is never answered as a
\* healthcheck, and one with an empty query string is answered 400 by the
\* pipeline's validation.
C22_Healthcheck ==
    \A t \in Tasks :
        LET c == conn[t] IN
        Handled(c) =>
            /\ ~c.req.has_query =>
                /\ c.pc = "done"
                /\ unwrap(c.outcome).tag = "Healthcheck"
                /\ c.response = Some(Response_new(<<"O", "K">>))
                /\ unwrap(c.response).status = 200
                /\ c.sent = <<>>
                /\ c.target_host = ""
                /\ is_none(c.resp) /\ is_none(c.file) /\ is_none(c.error)
                /\ \A a \in ArcIds : t \notin arcs[a].readers /\ arcs[a].writer # t
            /\ c.req.has_query =>
                /\ is_some(c.outcome) => unwrap(c.outcome).tag # "Healthcheck"
                /\ (is_none(c.req.url) /\ c.req.ua \in {None, Some(BrowserUA)}) =>
                        c.outcome = Some(StatusCodeOnly(BAD_REQUEST))

\* C22 witness: a request without a query string whose User-Agent is not
\* readable was answered OK on a connection that had fetched a file before.
C22_Witness ==
    \E t \in Tasks :
        LET c == conn[t] IN
        /\ c.pc = "done"
        /\ ~c.req.has_query
        /\ c.req.ua = Some(NonAsciiUA)
        /\ unwrap(c.response).body = <<"O", "K">>
        /\ QuarantineList # <<>>

\* The response the claim's table gives for an outcome.
Rendered(outcome, response) ==
    CASE outcome.tag = "Transformed" ->
            /\ response.status = 200
            /\ response.content_type = outcome.content_type
            /\ is_some(response.content_type)
            /\ response.cache_control = Some(MaxAgeImmutable)
            /\ is_some(response.content_disposition)
            /\ starts_with(unwrap(response.content_disposition),
                           <<"i", "n", "l", "i", "n", "e">>)
            /\ contains(unwrap(response.content_disposition),
                        <<"\"">> \o unwrap(outcome.filename) \o <<"\"">>)
            /\ is_none(response.location)
      [] outcome.tag = "RawPassthrough" ->
            /\ response.status = 200
            /\ response.content_type = outcome.content_type
            /\ response.body = outcome.bytes
            /\ is_none(response.cache_control)
            /\ is_none(response.content_disposition)
            /\ is_none(response.location)
      [] outcome.tag = "Redirect" ->
            /\ response.status = 302
            /\ response.location = Some(outcome.url)
            /\ response.body = <<>>
      [] outcome.tag = "StatusOnly" ->
            /\ response = [Response_new(<<>>) EXCEPT !.status = outcome.code]
      [] OTHER -> FALSE

\* C23: every request with a query string that has ended has exactly one of
\* the four outcomes and a response rendered from it: Transformed as 200 with
\* the output mime type, Cache-Control "max-age=31536000, immutable" and an
\* inline Content-Disposition carrying the filename; RawPassthrough as 200
\* with a Content-Type only when a type was declared and no Cache-Control;
\* Redirect as 302 with Location = url; StatusOnly as that code with no
\* headers and an empty body.
C23_OutcomeRendering ==
    \A t \in Tasks :
        LET c == conn[t] IN
        (c.req.has_query /\ c.pc \in {"done", "panicked"}) =>
            /\ is_some(c.outcome)
            /\ unwrap(c.outcome).tag \in
                   {"Transformed", "RawPassthrough", "Redirect", "StatusOnly"}
            /\ is_some(c.response)
            /\ Rendered(unwrap(c.outcome), unwrap(c.response))

\* C24: whatever the request, the quarantine list and the origin's answers, no
\* connection task panics, and a request that has ended has one of the four
\* outcomes (or is a healthcheck).
C24_NoPanic ==
    \A t \in Tasks :
        LET c == conn[t] IN
        /\ c.pc # "panicked"
        /\ c.pc = "done" =>
               /\ is_some(c.outcome)
               /\ is_some(c.response)
               /\ unwrap(c.outcome).tag \in
                      {"Healthcheck", "Transformed", "RawPassthrough", "Redirect",
                       "StatusOnly"}

\* The pipeline states a request shows to have entered, by what each leaves
\* behind: Fetching a parsed hostname or a fetch error, MimeGate a downloaded
\* file, Decoding the decoder's result (or the wait for it), Transforming the
\* transformed frames, Encoding the encoder's calls.
Entered(c) ==
    {st \in {"Start", "Fetching", "MimeGate", "Decoding", "Transforming", "Encoding",
             "Done"} :
        \/ st = "Start" /\ Handled(c) /\ c.req.has_query
        \/ st = "Fetching" /\ (c.target_host # "" \/ is_some(c.error))
        \/ st = "MimeGate" /\ is_some(c.file)
        \/ st = "Decoding" /\ (c.pc = "decode" \/ is_some(c.decoded))
        \/ st = "Transforming" /\ is_some(c.images)
        \/ st = "Encoding" /\ is_some(c.encoder)
        \/ st = "Done" /\ is_some(c.outcome) /\ unwrap(c.outcome).tag = "Transformed"}

PipelineOrder ==
    <<"Start", "Fetching", "MimeGate", "Decoding", "Transforming", "Encoding", "Done">>

\* The position of the request in the pipeline: 0 before it, 8 once it ended.
Position(c) ==
    IF c.pc \in {"done", "panicked"} THEN 8 ELSE Cardinality(Entered(c))

\* The states entered are a prefix of the pipeline, and each was entered only
\* after the one before it had let the request through.
OrderedPrefix(c) ==
    /\ \A i \in 2..Len(PipelineOrder) :
           PipelineOrder[i] \in Entered(c) => PipelineOrder[i - 1] \in Entered(c)
    /\ "Fetching" \in Entered(c) =>
           /\ is_some(c.req.url) /\ is_some(c.req.ua)
           /\ ~contains(to_lowercase(unwrap(c.req.ua)), Misskey)
    /\ "MimeGate" \in Entered(c) =>
           /\ c.sent # <<>> /\ is_some(c.resp) /\ is_none(c.error)
           /\ status_ok(unwrap(c.resp).status)
    /\ "Decoding" \in Entered(c) =>
           LET ct == unwrap(c.file).content_type IN
           is_none(ct) \/ starts_with(unwrap(ct), ImagePrefix)
    /\ "Transforming" \in Entered(c) => unwrap(c.decoded).ok
    /\ "Encoding" \in Entered(c) =>
           /\ c.calls # <<>>
           /\ c.calls[Len(c.calls)].fn = "encode_image"
           /\ \A i \in 1..(Len(c.calls) - 1) : c.calls[i].fn # "encode_image"
    /\ "Done" \in Entered(c) => unwrap(c.encoder).accepted
    /\ ("Start" \in Entered(c) /\ c.pc = "done") =>
           ("Done" \in Entered(c)
            \/ unwrap(c.outcome).tag \in {"StatusOnly", "Redirect", "RawPassthrough"})

\* C25: the states a request has visited are a prefix of Start, Fetching,
\* MimeGate, Decoding, Transforming, Encoding, Done, with validation before the
\* fetch, the fetch before the mime gate, the gate before the decoder, the
\* decoder before the transform and the transform before the encoder; a
\* request ends in Done or with an aborting outcome; a step of a request moves
\* it forward, and an ended request is left only by the connection's next
\* request.
C25_PipelineOrdering ==
    /\ [](\A t \in Tasks : OrderedPrefix(conn[t]))
    /\ [][\A t \in Tasks :
            conn'[t] # conn[t] =>
                IF conn[t].pc \in {"idle", "accepted", "done"}
                THEN \/ conn[t].pc = "idle" /\ conn'[t].pc = "accepted"
                     \/ /\ conn'[t].req \in clients[t]
                        /\ conn'[t] = handle(conn[t], conn'[t].req)
                ELSE /\ conn[t].pc # "panicked"
                     /\ conn'[t].req = conn[t].req
                     /\ Position(conn'[t]) >= Position(conn[t])
                     /\ Entered(conn[t]) \subseteq Entered(conn'[t])]_vars

\* C25 witness: a request whose fetch took the retry went through every
\* state and ended Done.
C25_Witness ==
    \E t \in Tasks :
        LET c == conn[t] IN
        /\ c.pc = "done"
        /\ Entered(c) = Range(PipelineOrder)
        /\ Len(c.sent) = 2
        /\ unwrap(c.response).status = 200

\* A request that has entered the pipeline and not ended.
InFlight(c) == c.pc \notin {"idle", "accepted", "done", "panicked"}

\* C26: under fair scheduling, with origins that answer every request and end
\* every body, a request in flight eventually ends with an outcome, whatever
\* the other connection does with the quarantine list's lock.
C26_Termination ==
    \A t \in Tasks : InFlight(conn[t]) ~> (conn[t].pc = "done")

\* The locks of the quarantine list that task t holds.
HoldsRead(t) == \E a \in ArcIds : t \in arcs[a].readers
HoldsWrite(t) == \E a \in ArcIds : arcs[a].writer = t

\* C27: a task holds the read lock only during the lookup and the write lock
\* only during the push; it holds neither while it waits for a response or a
\* body chunk, nor the read lock while it waits for the write lock; the lock
\* is never held by a writer together with anyone else; and whenever a task
\* waits for the lock, the lock is free for it or its holder can release it,
\* so no interleaving deadlocks.
C27_LockDiscipline ==
    /\ \A t \in Tasks :
        /\ HoldsRead(t) <=> conn[t].pc = "reading"
        /\ HoldsWrite(t) <=> conn[t].pc = "writing"
        /\ conn[t].pc \in {"first_sent", "retry_sent", "streaming", "write_wait"} =>
               ~HoldsRead(t) /\ ~HoldsWrite(t)
    /\ \A a \in ArcIds :
        /\ arcs[a].writer # NoTask => arcs[a].readers = {}
        /\ arcs[a].writer \in Tasks \cup {NoTask}
    /\ \A t \in Tasks :
        /\ conn[t].pc = "read_wait" =>
               \/ ENABLED AcquireRead(t)
               \/ \E u \in Tasks \ {t} : conn[u].pc = "writing" /\ ENABLED Push(u)
        /\ conn[t].pc = "write_wait" =>
               \/ ENABLED AcquireWrite(t)
               \/ \E u \in Tasks \ {t} :
                      \/ conn[u].pc = "writing" /\ ENABLED Push(u)
                      \/ conn[u].pc = "reading" /\ ENABLED ReleaseRead(u)

\* C27 witness: one task holds the write lock for its push while the other
\* waits for the write lock, holding nothing.
C27_Witness ==
    \E t, u \in Tasks :
        /\ conn[t].pc = "writing"
        /\ HoldsWrite(t)
        /\ conn[u].pc = "write_wait"
        /\ ~ENABLED AcquireWrite(u)

\* What an origin does with the two requests a fetch can send it: its answer
\* to the request with the default user-agent and its answer to the request
\* with the caller's user-agent and Referer; None is a transport error.
OriginBehaviours ==
    [direct : Option(origin.responses), retry : Option(origin.responses)]

\* One fetch from its lookup to the end of its response stage, by the steps of
\* ReleaseRead, FirstResponse, SendError, RetryResponse and Push, for a lookup
\* that found the hostname listed or not and an origin of behaviour b.
FetchFromLookup(c, listed, b) ==
    LET c0 == [c EXCEPT !.worth_first_try = ~listed]
        sent == [c0 EXCEPT !.pc = "first_sent",
                           !.sent = <<[variant |-> "direct", ua |-> DefaultUA,
                                       referer |-> None]>>]
        first == IF listed THEN after_first_try(c0, debug_enabled)
                 ELSE IF is_none(b.direct) THEN Fail(sent, RequestError)
                 ELSE after_first_try([sent EXCEPT !.resp = b.direct,
                                                   !.first_status = unwrap(b.direct).status],
                                      debug_enabled) IN
    IF first.pc # "retry_sent" THEN first
    ELSE IF is_none(b.retry) THEN Fail(first, RequestError)
    ELSE check_response([first EXCEPT !.resp = b.retry])

\* How the response stage of a fetch ended: with a panic, with an outcome, or
\* with the response whose body is streamed next.
FetchVerdict(c) ==
    [pc |-> c.pc, outcome |-> c.outcome, response |-> c.response,
     streamed |-> IF c.pc = "streaming" THEN c.resp ELSE None]

\* C28: for a fixed request and a fixed origin behaviour, a fetch whose
\* lookup finds its hostname listed (by earlier requests) ends the same way as
\* it would in the system where those requests never happened and the
\* hostname is not listed.
C28_CrossRequestIndependence ==
    \A t \in Tasks :
        (/\ conn[t].pc = "reading"
         /\ conn[t].target_host \in Range(arcs[ArcOf(conn[t])].data)) =>
            \A b \in OriginBehaviours :
                FetchVerdict(FetchFromLookup(conn[t], TRUE, b))
                    = FetchVerdict(FetchFromLookup(conn[t], FALSE, b))

\* The call of task t has had a 2xx response to its request with the caller's
\* user-agent, and no error.
RetrySucceeded(c) ==
    /\ c.sent # <<>>
    /\ c.sent[Len(c.sent)].variant = "retry"
    /\ is_some(c.resp)
    /\ is_success(unwrap(c.resp).status)
    /\ is_none(c.error)
    /\ (c.worth_first_try => is_client_error(c.first_status))

\* C29: the list changes only by the push of a call whose request with the
\* caller's user-agent was answered 2xx, which appends that call's own target
\* hostname, once, to its own list and leaves the other list alone; a call is
\* on its way to the push only after such an answer, so calls that fail
\* InvalidUrl or with a transport error, get a first response that is not 4xx
\* or a retry response that is not 2xx never change the list.
C29_QuarantineFrame ==
    /\ [](\A t \in Tasks :
            conn[t].pc \in {"write_wait", "writing"} => RetrySucceeded(conn[t]))
    /\ [][\A a \in ArcIds :
            arcs'[a].data # arcs[a].data =>
                \E t \in Tasks :
                    /\ conn[t].pc = "writing"
                    /\ ArcOf(conn[t]) = a
                    /\ RetrySucceeded(conn[t])
                    /\ arcs'[a].data = Append(arcs[a].data, conn[t].target_host)
                    /\ conn'[t].pc \notin {"write_wait", "writing"}
                    /\ \A u \in Tasks \ {t} : conn'[u] = conn[u]
                    /\ \A o \in ArcIds \ {a} : arcs'[o].data = arcs[o].data]_vars

\* C29 witness: one call has pushed its hostname after a 2xx retry response
\* and streams the body, while another call, whose retry was answered 404,
\* has ended without its hostname being listed.
C29_Witness ==
    \E t, u \in Tasks :
        /\ t # u
        /\ conn[t].pc = "streaming"
        /\ RetrySucceeded(conn[t])
        /\ arcs[ArcOf(conn[t])].data = <<conn[t].target_host>>
        /\ conn[u].pc = "done"
        /\ Len(conn[u].sent) = 2
        /\ conn[u].error = Some(InvalidStatusCode(404))
        /\ ArcOf(conn[u]) = ArcOf(conn[t])
        /\ conn[u].target_host \notin Range(arcs[ArcOf(conn[u])].data)

\* C30: one call sends at most two requests; when it sends two, the first is
\* the direct one, it was answered with a 4xx status and the second is the
\* retry, so a 3xx or 5xx first response is never followed by a retry; a
\* transport error on either attempt ends the call with RequestError, the
\* failed request being the last one sent; and a step sends at most one
\* request, never for a call that has failed.
C30_BoundedRetry ==
    /\ [](\A t \in Tasks :
            LET c == conn[t] IN
            /\ Len(c.sent) <= 2
            /\ Len(c.sent) = 2 =>
                   /\ c.sent[1].variant = "direct"
                   /\ c.sent[2].variant = "retry"
                   /\ c.worth_first_try
                   /\ is_client_error(c.first_status)
            /\ c.error = Some(RequestError) =>
                   /\ c.pc = "done"
                   /\ c.outcome = Some(StatusCodeOnly(INTERNAL_SERVER_ERROR))
                   /\ Len(c.sent) \in {1, 2})
    /\ [][\A t \in Tasks :
            /\ conn[t].pc \in {"first_sent", "retry_sent"}
                   /\ conn'[t].error = Some(RequestError) =>
                   conn'[t].sent = conn[t].sent /\ conn'[t].pc = "done"
            /\ conn'[t].sent # conn[t].sent =>
                   \/ conn'[t].sent = <<>> /\ conn[t].pc \in {"done", "accepted"}
                   \/ /\ Len(conn'[t].sent) = Len(conn[t].sent) + 1
                      /\ SubSeq(conn'[t].sent, 1, Len(conn[t].sent)) = conn[t].sent
                      /\ is_none(conn[t].error)
                      /\ is_none(conn'[t].error)]_vars

\* C30 witness: a call whose direct request was answered 4xx sent the retry,
\* the retry failed in transport, and the call ended with RequestError after
\* its two requests.
C30_Witness ==
    \E t \in Tasks :
        /\ conn[t].pc = "done"
        /\ Len(conn[t].sent) = 2
        /\ is_client_error(conn[t].first_status)
        /\ conn[t].error = Some(RequestError)

\* The request of c was handed to encode_image.
ReachedEncoder(c) == c.pc \in {"done", "panicked"} /\ is_some(c.encoder)

\* C31: of every request that reaches the encoder, the images handed over are,
\* with emoji or avatar together with static, exactly one, the cover-fill of
\* the first decoded frame; otherwise (static alone, preview, no option, emoji
\* or avatar without static) as many as were decoded.
C31_FrameCountUnderTransforms ==
    \A t \in Tasks :
        LET c == conn[t] IN
        ReachedEncoder(c) =>
            LET o == c.req.options
                decoded == unwrap(c.decoded).images
                images == unwrap(c.images) IN
            IF ("emoji" \in o \/ "avatar" \in o) /\ "static" \in o
            THEN /\ Len(images) = 1
                 /\ Len(decoded) >= 1
                 /\ images[1] = shrink_outside(decoded[1],
                                               IF "emoji" \in o THEN 128 ELSE 320)
            ELSE Len(images) = Len(decoded)

\* C32: the result of shrink_inside and of shrink_outside is no wider and no
\* higher than the image given, has both sides at least 1, and is left as it
\* is by the same resize applied to it again.
C32_ResizeOnlyShrinks ==
    is_some(tests.result) =>
        LET r == unwrap(tests.result) IN
        /\ r.width <= tests.image.width
        /\ r.height <= tests.image.height
        /\ r.width >= 1
        /\ r.height >= 1
        /\ tests.fn = "shrink_inside" =>
               \A half_down \in BOOLEAN :
                   shrink_inside(r, tests.args[1], tests.args[2], half_down) = r
        /\ tests.fn = "shrink_outside" => shrink_outside(r, tests.args[1]) = r

\* C32 witness: a 10x1 image fitted into a 2x2 box comes out 2x1, the height
\* held at 1 where the scaled height rounds to 0.
C32_Witness ==
    /\ tests.fn = "shrink_inside"
    /\ is_some(tests.result)
    /\ tests.image.width = 10
    /\ tests.image.height = 1
    /\ tests.args = <<2, 2>>
    /\ unwrap(tests.result).width = 2
    /\ unwrap(tests.result).height = 1

\* The format a request path names: "/" is the separator alone, "/image" has
\* no extension, bin is no image format.
NamedFormat(path) ==
    CASE path = "/i.png" -> "Png"
      [] path = "/i.gif" -> "Gif"
      [] path \in {"/", "/image", "/i.bin"} -> "WebP"

C34_FilenameCorrection ==
    \A t \in Tasks :
        LET c == conn[t] IN
        (is_some(c.encoder) /\ is_some(c.outcome)) =>
            LET target_format == unwrap(c.target_format)
                extension == <<".">> \o extensions_str0(target_format)
                Corrected(name) ==
                    IF ends_with(name, extension) THEN name ELSE name \o extension
                original == unwrap(c.file).filename
                outcome == unwrap(c.outcome) IN
            IF unwrap(c.encoder).accepted
            THEN /\ outcome.tag = "Transformed"
                 /\ outcome.content_type = Some(to_mime_type(target_format))
                 /\ outcome.filename = Some(Corrected(original))
                 /\ ends_with(unwrap(outcome.filename), extension)
                 /\ correct_filename(unwrap(outcome.filename), target_format)
                        = unwrap(outcome.filename)
                 /\ is_some(outcome.filename_encoded) <=> is_some(c.filename_encoded)
                 /\ is_some(c.filename_encoded) =>
                        /\ outcome.filename_encoded
                               = Some(Corrected(unwrap(c.filename_encoded)))
                        /\ ends_with(unwrap(outcome.filename_encoded), extension)
            ELSE /\ outcome = StatusCodeOnly(INTERNAL_SERVER_ERROR)
                 /\ c.pc = "done"
                 /\ unwrap(c.response).body = <<>>

\* C34 witness: a.png asked for as /i.png keeps its name, while its encoded
\* name UTF-8''d has .png appended.
C34_Witness ==
    \E t \in Tasks :
        /\ conn[t].pc = "done"
        /\ conn[t].req.path = "/i.png"
        /\ is_some(conn[t].encoder)
        /\ unwrap(conn[t].encoder).accepted
        /\ is_some(conn[t].file)
        /\ unwrap(conn[t].file).filename = <<"a", ".", "p", "n", "g">>
        /\ unwrap(conn[t].outcome).filename = Some(<<"a", ".", "p", "n", "g">>)
        /\ unwrap(conn[t].outcome).filename_encoded
               = Some(<<"U", "T", "F", "-", "8", "'", "'", "d", ".", "p", "n", "g">>)

\* The value of the first filename= parameter of a Content-Disposition value,
\* without its surrounding quotes; None when it has no such parameter
\* (filename*= is another parameter).
NamedByDisposition(content_disposition) ==
    CASE content_disposition = Some(QuotedName) -> Some(<<"a", ".", "p", "n", "g">>)
      [] content_disposition = Some(TwoNames) -> Some(<<"b", ".", "g", "i", "f">>)
      [] content_disposition = Some(EmptyName) -> Some(<<>>)
      [] OTHER -> None

\* The final segment of the path of a url, its query string left out.
FinalPathSegment(url) ==
    CASE url \in {UrlA, UrlB, UrlQuery} -> IPng
      [] OTHER -> UrlTable[url].tail

\* C35: the filename of every file download_file returned is the value of the
\* first filename= parameter of the response's Content-Disposition when it
\* has one, and the final path segment of the url, without the query string,
\* otherwise.
C35_FilenameDerivation ==
    \A t \in Tasks :
        LET c == conn[t] IN
        is_some(c.file) =>
            LET named == NamedByDisposition(unwrap(c.resp).content_disposition) IN
            unwrap(c.file).filename =
                IF is_some(named) THEN unwrap(named)
                ELSE FinalPathSegment(unwrap(c.req.url))

\* C36: the images handed to the encoder are at least one, whatever the source
\* and the options; a source that is not animated decodes to exactly one image
\* with delay 0; and no transform leaves fewer images than one.
C36_FrameSetNonEmpty ==
    \A t \in Tasks :
        LET c == conn[t] IN
        /\ (is_some(c.decoded) /\ unwrap(c.decoded).ok) =>
               /\ Len(unwrap(c.decoded).images) >= 1
               /\ ~unwrap(c.body).animated =>
                      /\ Len(unwrap(c.decoded).images) = 1
                      /\ unwrap(c.decoded).images[1].delay
                             = Delay_from_numer_denom_ms(0, 1)
        /\ is_some(c.images) => Len(unwrap(c.images)) >= 1
        /\ ReachedEncoder(c) => Len(unwrap(c.images)) >= 1

C38_AnimDisabled ==
    \A t \in Tasks :
        LET c == conn[t] IN
        (/\ is_some(c.decoded)
         /\ is_some(unwrap(c.body).format)
         /\ ~unwrap(c.body).codec_error) =>
            LET frames == decode_image_format(unwrap(c.body)).images
                decoded == unwrap(c.decoded) IN
            /\ (~build.anim /\ Len(frames) > 1) =>
                   /\ ~decoded.ok
                   /\ decoded.err = "Unsupported"
                   /\ is_none(c.images)
                   /\ c.outcome = Some(BytesOnly(unwrap(c.file)))
                   /\ c.pc = "done"
                   /\ unwrap(c.response).body = unwrap(c.file).bytes
                   /\ unwrap(c.response).content_type = unwrap(c.file).content_type
            /\ (~build.anim /\ Len(frames) = 1) =>
                   /\ decoded.ok
                   /\ decoded.images = frames
                   /\ is_some(c.images)
            /\ build.anim =>
                   /\ decoded.ok
                   /\ decoded.images = frames
                   /\ is_some(c.images)

\* C38 witness: a build without anim answers a two-frame GIF with the bytes as
\* downloaded.
C38_Witness ==
    \E t \in Tasks :
        /\ ~build.anim
        /\ conn[t].pc = "done"
        /\ is_some(conn[t].body)
        /\ unwrap(conn[t].body).format = Some("Gif")
        /\ Len(unwrap(conn[t].body).frames) = 2
        /\ unwrap(conn[t].decoded).err = "Unsupported"
        /\ unwrap(conn[t].outcome).tag = "RawPassthrough"

\* C39: in every run of encode_webp over at least one frame the loop ends
\* without overflow, every timestamp handed to add_frame is at least 0 and
\* greater than the one before it, and the timestamp handed to finalize is at
\* least the last frame's.
C39_TimestampMonotonicity ==
    \A t \in Tasks :
        LET c == conn[t] IN
        (/\ is_some(c.encoder)
         /\ unwrap(c.encoder).kind = "encode_webp"
         /\ unwrap(c.images) # <<>>) =>
            LET written == unwrap(c.encoder).add_frame
                finalize == unwrap(c.encoder).finalize IN
            /\ is_some(finalize)
            /\ Len(written) = Len(unwrap(c.images))
            /\ \A i \in DOMAIN written : written[i].timestamp_ms >= 0
            /\ \A i \in 2..Len(written) :
                   written[i].timestamp_ms > written[i - 1].timestamp_ms
            /\ is_some(finalize) =>
                   unwrap(finalize) >= written[Len(written)].timestamp_ms

(***************************************************************************)
(* C40.  Unix-socket startup and shutdown.                                 *)
(***************************************************************************)
\* The places in the listener's log of a file operation that succeeded.
Done(op, path) ==
    {i \in DOMAIN unix.log :
        unix.log[i] = [op |-> op, path |-> path, ok |-> TRUE]}
\* Some operation of the first set comes before every operation of the second.
Before(first, second) == \A i \in second : \E j \in first : j < i
\* The listener's last file operation was a removal that failed.
LastRemovalFailed ==
    /\ unix.log # <<>>
    /\ unix.log[Len(unix.log)].op = "remove_file"
    /\ ~unix.log[Len(unix.log)].ok

\* C40, first part: when the path exists and a connection to it succeeds,
\* startup returns an error and has made no file operation at all.
InUseLeftAlone ==
    unix.connected = Some(TRUE) =>
        /\ unix.pc = "returned"
        /\ unix.result = Some("Err")
        /\ unix.log = <<>>
        /\ unix.socket # "absent"
\* C40, third part: the lock file is written only after a bind that succeeded.
LockAfterBind ==
    /\ \A i \in DOMAIN unix.log :
          unix.log[i].op = "write" => Done("bind", "socket") # {} /\ Before(Done("bind", "socket"), {i})
    /\ unix.lock = "own" => Done("bind", "socket") # {}

====
